---- MODULE Spec2Model ----
(***************************************************************************)
(* A model of the ShX shell (src/cmd/main.go): the quote-aware tokenizer   *)
(* parseCommand, the redirection extractor processRedirectionOperators,    *)
(* the read/parse/dispatch loop of main with the two dispatchers           *)
(* executeBuiltinWithRedirection and executeExternalWithRedirection, and   *)
(* the line editor readInputWithAutocomplete with autocomplete.            *)
(*                                                                         *)
(* A Go string is a sequence of one-character strings; the empty Go string *)
(* "" is the empty sequence.  A file holds a sequence of written lines; a  *)
(* written line is a record [kind, arg] (the message and its parameter).   *)
(***************************************************************************)
EXTENDS Naturals, Sequences, FiniteSets

(***************************************************************************)
(* Bounds of the model.                                                    *)
(***************************************************************************)
MaxTokens == 5

MaxLineLen == 5

MaxCycles == 2

MaxKeys == 5

(***************************************************************************)
(* Strings.                                                                *)
(***************************************************************************)
EmptyString == << >>

BoundedSeq(S, n) == UNION { [1..k -> S] : k \in 0..n }

RECURSIVE Join(_, _)
Join(elems, sep) ==
    IF Len(elems) = 0 THEN EmptyString
    ELSE IF Len(elems) = 1 THEN elems[1]
    ELSE elems[1] \o sep \o Join(Tail(elems), sep)

\* the white space strings.TrimSpace removes (unicode.IsSpace): the blank,
\* \t, \n, \r, \v (byte 0x0B) and \f, of one byte each
WhiteSpace == {" ", "\t", "\n", "\r", "x0B", "\f"}

\* and the white space of more bytes in UTF-8: U+0085 and U+00A0 of two
\* bytes, U+1680, U+2000 to U+200A, U+2028, U+2029, U+202F, U+205F and U+3000
\* of three
WideWhiteSpace ==
    { <<"xC2", "x85">>, <<"xC2", "xA0">>,
      <<"xE1", "x9A", "x80">>, <<"xE2", "x81", "x9F">>, <<"xE3", "x80", "x80">> }
    \cup { <<"xE2", "x80", b>> :
             b \in {"x80", "x81", "x82", "x83", "x84", "x85", "x86", "x87",
                    "x88", "x89", "x8A", "xA8", "xA9", "xAF"} }

RECURSIVE TrimLeft(_)
TrimLeft(s) ==
    IF Len(s) > 0 /\ s[1] \in WhiteSpace THEN TrimLeft(Tail(s))
    ELSE IF Len(s) > 1 /\ SubSeq(s, 1, 2) \in WideWhiteSpace
    THEN TrimLeft(SubSeq(s, 3, Len(s)))
    ELSE IF Len(s) > 2 /\ SubSeq(s, 1, 3) \in WideWhiteSpace
    THEN TrimLeft(SubSeq(s, 4, Len(s)))
    ELSE s

RECURSIVE TrimRight(_)
TrimRight(s) ==
    IF Len(s) > 0 /\ s[Len(s)] \in WhiteSpace
    THEN TrimRight(SubSeq(s, 1, Len(s) - 1))
    ELSE IF Len(s) > 1 /\ SubSeq(s, Len(s) - 1, Len(s)) \in WideWhiteSpace
    THEN TrimRight(SubSeq(s, 1, Len(s) - 2))
    ELSE IF Len(s) > 2 /\ SubSeq(s, Len(s) - 2, Len(s)) \in WideWhiteSpace
    THEN TrimRight(SubSeq(s, 1, Len(s) - 3))
    ELSE s

TrimSpace(s) == TrimRight(TrimLeft(s))

(***************************************************************************)
(* parseCommand: one left-to-right scan with the three flags.              *)
(***************************************************************************)
\* the backquote character (the parser accepts no backquote in a string literal)
Backquote == "backquote"

\* (faulty variant: the backslash is not among the characters an escape yields
\* alone inside double quotes)
DoubleQuoteEscapableNoBackslash == {"$", Backquote, "\"", "\n"}

DoubleQuoteEscapable == {"$", Backquote, "\"", "\\", "\n"}

ParseInit ==
    [result |-> << >>, current |-> EmptyString,
     inSingleQuote |-> FALSE, inDoubleQuote |-> FALSE, escaped |-> FALSE]

\* (faulty variant: the token is emitted even when it is empty)
FlushAlways(st) ==
    [st EXCEPT !.result = Append(st.result, st.current), !.current = EmptyString]

\* a space outside quotes ends the current token, if there is one
FlushAtSpace(st) ==
    IF Len(st.current) > 0
    THEN [st EXCEPT !.result = Append(st.result, st.current),
                    !.current = EmptyString]
    ELSE st

\* (faulty variant: the double-quote test of the escape is left out)
EscapePrefixIgnoresQuotes(st, c) ==
    IF c \notin DoubleQuoteEscapable THEN <<"\\">> ELSE << >>

\* what is written before an escaped character: the backslash, inside double
\* quotes and before a character that is not one of the five
EscapePrefix(st, c) ==
    IF st.inDoubleQuote /\ c \notin DoubleQuoteEscapable THEN <<"\\">> ELSE << >>

\* (faulty variant: the backslash of an escape stays in the token)
EscapedStepKeepsBackslash(st, c) ==
    [st EXCEPT !.current = st.current \o <<"\\", c>>,
               !.escaped = FALSE]

\* the character after an unescaped backslash
EscapedStep(st, c) ==
    [st EXCEPT !.current = st.current \o EscapePrefix(st, c) \o <<c>>,
               !.escaped = FALSE]

\* (faulty variant: the backslash starts an escape inside single quotes too)
BackslashStepAlwaysEscapes(st, c) == [st EXCEPT !.escaped = TRUE]

\* case '\\'
BackslashStep(st, c) ==
    IF st.inSingleQuote
    THEN [st EXCEPT !.current = st.current \o <<c>>]
    ELSE [st EXCEPT !.escaped = TRUE]

\* (faulty variant: the single quote toggles inside double quotes too)
SingleQuoteStepAlwaysToggles(st, c) ==
    [st EXCEPT !.inSingleQuote = ~st.inSingleQuote]

\* case '\''
SingleQuoteStep(st, c) ==
    IF ~st.inDoubleQuote
    THEN [st EXCEPT !.inSingleQuote = ~st.inSingleQuote]
    ELSE [st EXCEPT !.current = st.current \o <<c>>]

\* case '"'
DoubleQuoteStep(st, c) ==
    IF ~st.inSingleQuote
    THEN [st EXCEPT !.inDoubleQuote = ~st.inDoubleQuote]
    ELSE [st EXCEPT !.current = st.current \o <<c>>]

\* (faulty variant: a space ends the token inside quotes too)
SpaceStepIgnoresQuotes(st, c) == FlushAtSpace(st)

\* case ' '
SpaceStep(st, c) ==
    IF ~st.inSingleQuote /\ ~st.inDoubleQuote
    THEN FlushAtSpace(st)
    ELSE [st EXCEPT !.current = st.current \o <<c>>]

\* one iteration of the loop over the bytes of the command
ParseStep(st, c) ==
    IF st.escaped
    THEN EscapedStep(st, c)
    ELSE CASE c = "\\" -> BackslashStep(st, c)
           [] c = "'"  -> SingleQuoteStep(st, c)
           [] c = "\"" -> DoubleQuoteStep(st, c)
           [] c = " "  -> SpaceStep(st, c)
           [] OTHER    -> [st EXCEPT !.current = st.current \o <<c>>]

\* the loop from byte i on; the state after a byte is computed once and
\* handed to the rest of the loop
RECURSIVE ParseScan(_, _, _)
ParseScan(command, i, st) ==
    IF i > Len(command) THEN st
    ELSE CHOOSE final \in { ParseScan(command, i + 1, next) :
                               next \in {ParseStep(st, command[i])} } : TRUE

\* after the loop: the last token, if there is one
ParseFinish(st) ==
    IF Len(st.current) > 0 THEN Append(st.result, st.current) ELSE st.result

parseCommand(command) == ParseFinish(ParseScan(command, 1, ParseInit))

(***************************************************************************)
(* processRedirectionOperators.                                            *)
(***************************************************************************)
OpOut       == <<">">>
OpOut1      == <<"1", ">">>
OpOutApp    == <<">", ">">>
OpOut1App   == <<"1", ">", ">">>
OpErr       == <<"2", ">">>
OpErrApp    == <<"2", ">", ">">>

StdoutAppendOps   == {OpOutApp, OpOut1App}
StdoutTruncateOps == {OpOut, OpOut1}
StderrTruncateOps == {OpErr}
StderrAppendOps   == {OpErrApp}
StdoutOps == StdoutAppendOps \cup StdoutTruncateOps
StderrOps == StderrTruncateOps \cup StderrAppendOps
RedirOps  == StdoutOps \cup StderrOps

ExtractInit ==
    [fields |-> << >>, stdoutFile |-> EmptyString, stderrFile |-> EmptyString,
     stdoutAppend |-> FALSE, stderrAppend |-> FALSE, syntaxError |-> FALSE]

\* (faulty variant: the scanned tokens and targets are returned with the error)
ExtractFailedKeepsScanned(acc) == [acc EXCEPT !.syntaxError = TRUE]

\* the return after the syntax error message: nothing of what was scanned
ExtractFailed(acc) == [ExtractInit EXCEPT !.syntaxError = TRUE]

\* Go: i+1 >= len(fields), with i counted from 0
NoFileAfter(fields, i) == i + 1 > Len(fields)

\* (faulty variant: the first stdout target is kept)
ApplyStdoutTruncateFirstWins(acc, file) ==
    IF acc.stdoutFile = EmptyString THEN [acc EXCEPT !.stdoutFile = file] ELSE acc

\* (faulty variant: the kept tokens come out in reverse)
KeepTokenInFront(acc, token) ==
    [acc EXCEPT !.fields = <<token>> \o acc.fields]

\* the assignments of one recognised operator at index i
ApplyStdoutAppend(acc, file) ==
    [acc EXCEPT !.stdoutFile = file, !.stdoutAppend = TRUE]

ApplyStdoutTruncate(acc, file) ==
    [acc EXCEPT !.stdoutFile = file]

ApplyStderrTruncate(acc, file) ==
    [acc EXCEPT !.stderrFile = file]

ApplyStderrAppend(acc, file) ==
    [acc EXCEPT !.stderrFile = file, !.stderrAppend = TRUE]

KeepToken(acc, token) ==
    [acc EXCEPT !.fields = Append(acc.fields, token)]

RECURSIVE ExtractScan(_, _, _)
ExtractScan(fields, i, acc) ==
    IF i > Len(fields) THEN acc
    ELSE LET token == fields[i] IN
         IF token \in RedirOps
         THEN IF NoFileAfter(fields, i) THEN ExtractFailed(acc)
              ELSE ExtractScan(fields, i + 2,
                     CASE token \in StdoutAppendOps ->
                              ApplyStdoutAppend(acc, fields[i + 1])
                       [] token \in StdoutTruncateOps ->
                              ApplyStdoutTruncate(acc, fields[i + 1])
                       [] token \in StderrTruncateOps ->
                              ApplyStderrTruncate(acc, fields[i + 1])
                       [] token \in StderrAppendOps ->
                              ApplyStderrAppend(acc, fields[i + 1]))
         ELSE ExtractScan(fields, i + 1, KeepToken(acc, token))

\* (faulty variant: the scan takes the first token for the command name and
\* starts after it)
processRedirectionOperatorsAfterCommand(fields) ==
    IF Len(fields) = 0 THEN ExtractInit
    ELSE ExtractScan(fields, 2, KeepToken(ExtractInit, fields[1]))

processRedirectionOperators(fields) == ExtractScan(fields, 1, ExtractInit)

(***************************************************************************)
(* Names of the program and of the modelled environment.                   *)
(***************************************************************************)
S_echo   == <<"e", "c", "h", "o">>
S_exit   == <<"e", "x", "i", "t">>
S_type   == <<"t", "y", "p", "e">>
S_pwd    == <<"p", "w", "d">>
S_cd     == <<"c", "d">>
S_ls     == <<"l", "s">>
S_lle    == <<"l", "l", "e">>
S_nosuch == <<"n", "o">>
S_hi     == <<"h", "i">>
S_f      == <<"f">>
S_g      == <<"g">>
S_bad    == <<"x", "/", "f">>
S_home   == <<"/", "h">>
S_root   == <<"/">>
S_tilde  == <<"~">>

builtinCMDs == <<S_exit, S_echo, S_type, S_pwd, S_cd>>

\* the keys of the builtins map of main
IsBuiltin(name) == \E k \in 1..Len(builtinCMDs) : builtinCMDs[k] = name

\* the environment: the programs found on the search path (ls is in the
\* directory that can be searched but not listed) and the directories that
\* exist (so that x/ does not exist)
PathPrograms == {S_ls, S_lle}
ExistingDirs == {S_root, S_home}

LookPathOk(name) == name \in PathPrograms

\* what a launched process may do: the lines it writes and how it ends
ProcBehaviours ==
    { [out |-> <<[kind |-> "procout", arg |-> EmptyString]>>, err |-> << >>,
       status |-> "ok"],
      [out |-> << >>, err |-> <<[kind |-> "procerr", arg |-> EmptyString]>>,
       status |-> "nonzero"],
      [out |-> << >>, err |-> << >>, status |-> "launch_error"] }

\* the names between the slashes of a path
RECURSIVE PathNames(_)
PathNames(path) ==
    IF Len(path) = 0 THEN << >>
    ELSE IF path[1] = "/" THEN PathNames(Tail(path))
    ELSE LET n == CHOOSE n \in 1..Len(path) :
                     /\ \A k \in 1..n : path[k] # "/"
                     /\ (n = Len(path) \/ path[n + 1] = "/")
         IN  <<SubSeq(path, 1, n)>> \o PathNames(SubSeq(path, n + 1, Len(path)))

\* the absolute path of the directory reached by a list of names from /
RECURSIVE PathOf(_)
PathOf(names) ==
    IF Len(names) = 0 THEN S_root
    ELSE IF Len(names) = 1 THEN <<"/">> \o names[1]
    ELSE PathOf(SubSeq(names, 1, Len(names) - 1)) \o <<"/">> \o names[Len(names)]

\* the walk of the kernel from the directory at, name by name: . stays, ..
\* goes up (and stays at /), a name must be a directory of its parent
RECURSIVE Walk(_, _)
Walk(at, names) ==
    IF Len(names) = 0 THEN [ok |-> TRUE, cwd |-> PathOf(at)]
    ELSE IF names[1] = <<".">> THEN Walk(at, Tail(names))
    ELSE IF names[1] = <<".", ".">>
    THEN Walk(SubSeq(at, 1, Len(at) - 1), Tail(names))
    ELSE IF PathOf(Append(at, names[1])) \in ExistingDirs
    THEN Walk(Append(at, names[1]), Tail(names))
    ELSE [ok |-> FALSE, cwd |-> PathOf(at)]

\* os.Chdir(dir) from the directory cwd: the path is resolved, relative to
\* cwd unless it starts with a slash; the empty path is an error
Chdir(cwd, dir) ==
    IF Len(dir) = 0 THEN [ok |-> FALSE, cwd |-> cwd]
    ELSE IF dir[1] = "/" THEN Walk(<< >>, PathNames(dir))
    ELSE Walk(PathNames(cwd), PathNames(dir))

\* the file a name denotes to os.OpenFile with O_CREATE and to os.Create in
\* the directory cwd: the directories of the name are resolved as by Chdir;
\* the open fails for the empty name, for a name that ends in a slash or in
\* . or .., for a directory that does not exist and for the name of a
\* directory
FilePath(cwd, fileName) ==
    LET names == PathNames(fileName)
        dir   == Walk(IF Len(fileName) > 0 /\ fileName[1] = "/"
                      THEN << >> ELSE PathNames(cwd),
                      SubSeq(names, 1, Len(names) - 1))
        path  == IF dir.cwd = S_root THEN dir.cwd \o names[Len(names)]
                 ELSE dir.cwd \o <<"/">> \o names[Len(names)]
    IN  IF \/ Len(names) = 0
           \/ fileName[Len(fileName)] = "/"
           \/ names[Len(names)] \in { <<".">>, <<".", ".">> }
           \/ ~dir.ok
           \/ path \in ExistingDirs
        THEN [ok |-> FALSE, path |-> EmptyString]
        ELSE [ok |-> TRUE, path |-> path]

(***************************************************************************)
(* Streams, files and handles.                                             *)
(***************************************************************************)
TtyOut == "tty_out"
TtyErr == "tty_err"
TtyStreams == {TtyOut, TtyErr}
HandleIds == {"h_out", "h_err", "h_msg"}

NoHandle ==
    [state |-> "none", file |-> EmptyString, appendMode |-> FALSE, pos |-> 0]

Min(a, b) == IF a < b THEN a ELSE b

\* the content of a file after a write of msg through handle h
WriteAt(content, h, msg) ==
    IF h.appendMode
    THEN Append(content, msg)
    ELSE SubSeq(content, 1, Min(h.pos, Len(content))) \o <<msg>>
         \o SubSeq(content, h.pos + 2, Len(content))

\* fmt.Fprintln(stream, msg) by the shell, or a write by a launched process
Emit(w, stream, by, msg) ==
    IF stream \in TtyStreams
    THEN [w EXCEPT !.log = Append(@, [by |-> by, tty |-> stream,
                                      file |-> EmptyString, msg |-> msg])]
    ELSE LET h == w.handles[stream] IN
         IF h.state # "open" THEN w
         ELSE [w EXCEPT
                 !.fs = [n \in DOMAIN w.fs |->
                           IF n = h.file THEN WriteAt(w.fs[n], h, msg)
                           ELSE w.fs[n]],
                 !.handles[stream].pos = h.pos + 1,
                 !.log = Append(@, [by |-> by, tty |-> "none",
                                    file |-> h.file, msg |-> msg])]

RECURSIVE EmitAll(_, _, _, _)
EmitAll(w, stream, by, msgs) ==
    IF Len(msgs) = 0 THEN w
    ELSE EmitAll(Emit(w, stream, by, Head(msgs)), stream, by, Tail(msgs))

\* os.OpenFile(O_APPEND|O_CREATE|O_WRONLY) and os.Create; the files are
\* kept by their resolved paths, so that f, ./f and /h/f opened in /h are
\* one file
OpenFails(cwd, fileName) == ~FilePath(cwd, fileName).ok

ContentOnOpen(fs, file, appendMode) ==
    IF appendMode /\ file \in DOMAIN fs THEN fs[file] ELSE << >>

openFile(w, hid, fileName, appendMode) ==
    IF OpenFails(w.cwd, fileName) THEN [ok |-> FALSE, w |-> w]
    ELSE LET file == FilePath(w.cwd, fileName).path IN
         [ok |-> TRUE,
          w  |-> [w EXCEPT
                    !.fs = [n \in DOMAIN w.fs \cup {file} |->
                              IF n = file
                              THEN ContentOnOpen(w.fs, file, appendMode)
                              ELSE w.fs[n]],
                    !.handles[hid] = [state |-> "open", file |-> file,
                                      appendMode |-> appendMode, pos |-> 0],
                    !.opened = @ \cup {file}]]

CloseHandle(w, hid) == [w EXCEPT !.handles[hid].state = "closed"]

(***************************************************************************)
(* The messages.                                                           *)
(***************************************************************************)
Msg(kind, arg) == [kind |-> kind, arg |-> arg]

SyntaxErrorMsg == Msg("syntax error: no file specified for redirection", EmptyString)
StdoutOpenErrorMsg(file) == Msg("Error opening file for stdout redirection:", file)
StderrOpenErrorMsg(file) == Msg("Error opening file for stderr redirection:", file)
NotFoundMsg(name) == Msg(": command not found", name)

(***************************************************************************)
(* The built-in handlers.  Each writes with fmt.Println, that is to the    *)
(* process-wide os.Stdout of the moment.  The result is the new world and  *)
(* whether the process exited.                                             *)
(***************************************************************************)
exitHandler(w, out, args) == [w |-> w, exited |-> TRUE]

echoHandler(w, out, args) ==
    [w |-> Emit(w, out, "shell",
                Msg("echo", Join(SubSeq(args, 2, Len(args)), <<" ">>))),
     exited |-> FALSE]

typeHandler(w, out, args) ==
    [w |-> IF Len(args) < 2
           THEN Emit(w, out, "shell", Msg("type: missing argument", EmptyString))
           ELSE IF IsBuiltin(args[2])
           THEN Emit(w, out, "shell", Msg(" is a shell builtin", args[2]))
           ELSE IF LookPathOk(args[2])
           THEN Emit(w, out, "shell", Msg(" is <path>", args[2]))
           ELSE Emit(w, out, "shell", Msg(": not found", args[2])),
     exited |-> FALSE]

pwdHandler(w, out, args) ==
    [w |-> Emit(w, out, "shell", Msg("cwd", w.cwd)), exited |-> FALSE]

HasTildeSlashPrefix(dir) == Len(dir) >= 2 /\ dir[1] = "~" /\ dir[2] = "/"

cdTarget(dir) ==
    IF dir = S_tilde THEN S_home
    ELSE IF HasTildeSlashPrefix(dir) THEN S_home \o Tail(dir)
    ELSE dir

\* (faulty variant: a failed cd ends the process)
cdHandlerFatal(w, out, args) ==
    [w |-> IF Len(args) < 2
           THEN Emit(w, out, "shell", Msg("cd: missing argument", EmptyString))
           ELSE IF Chdir(w.cwd, cdTarget(args[2])).ok
           THEN [w EXCEPT !.cwd = Chdir(w.cwd, cdTarget(args[2])).cwd]
           ELSE Emit(w, out, "shell",
                     Msg("cd: %s: No such file or directory", cdTarget(args[2]))),
     exited |-> (Len(args) < 2 \/ ~Chdir(w.cwd, cdTarget(args[2])).ok)]

\* the working directory becomes the resolved path, as os.Getwd gives it
cdHandler(w, out, args) ==
    [w |-> IF Len(args) < 2
           THEN Emit(w, out, "shell", Msg("cd: missing argument", EmptyString))
           ELSE IF Chdir(w.cwd, cdTarget(args[2])).ok
           THEN [w EXCEPT !.cwd = Chdir(w.cwd, cdTarget(args[2])).cwd]
           ELSE Emit(w, out, "shell",
                     Msg("cd: %s: No such file or directory", cdTarget(args[2]))),
     exited |-> FALSE]

\* builtins[fields[0]] applied to the token list
RunHandler(w, out, args) ==
    CASE args[1] = S_exit -> exitHandler(w, out, args)
      [] args[1] = S_echo -> echoHandler(w, out, args)
      [] args[1] = S_type -> typeHandler(w, out, args)
      [] args[1] = S_pwd  -> pwdHandler(w, out, args)
      [] args[1] = S_cd   -> cdHandler(w, out, args)

(***************************************************************************)
(* The state.                                                              *)
(***************************************************************************)
VARIABLES
    pc,          \* where the process is in main and the dispatchers
    cycles,      \* lines read so far
    input,       \* main: input, after strings.TrimSpace
    parsed,      \* main: fields, as parseCommand returned them
    fields,      \* main: fields, as processRedirectionOperators returned them
    redir,       \* main: stdoutFile, stderrFile, stdoutAppend, stderrAppend
    osStdout,    \* os.Stdout
    osStderr,    \* os.Stderr
    oldStdout,   \* executeBuiltinWithRedirection: oldStdout
    oldStderr,   \* executeBuiltinWithRedirection: oldStderr
    defers,      \* the deferred calls of the running dispatcher, last first
    cmd,         \* executeExternalWithRedirection: cmd.Stdout and cmd.Stderr
    world,       \* files, handles, working directory; this cycle's writes
    ghost,       \* what happened in this cycle
    scan,        \* parseCommand: command, the loop index, and the loop's locals
    editor       \* readInputWithAutocomplete: input, the two globals of the
                 \* Tab key, and what the last key did

vars == <<pc, cycles, input, parsed, fields, redir, osStdout, osStderr,
          oldStdout, oldStderr, defers, cmd, world, ghost, scan, editor>>

NoRedir ==
    [stdoutFile |-> EmptyString, stderrFile |-> EmptyString,
     stdoutAppend |-> FALSE, stderrAppend |-> FALSE]

NoGhost ==
    [extracted |-> FALSE, syntaxError |-> FALSE, handlerRan |-> FALSE,
     launched |-> FALSE, resolved |-> FALSE, status |-> "none",
     openFailed |-> FALSE]

World0 ==
    [fs |-> << >>, fs0 |-> << >>, handles |-> [h \in HandleIds |-> NoHandle],
     log |-> << >>, opened |-> {}, cwd |-> S_home, cwd0 |-> S_home]

\* what a new cycle starts from: the files and the directory stay; fs0 and
\* cwd0 keep the files and the directory as the cycle found them
NewCycle(w) ==
    [w EXCEPT !.handles = [h \in HandleIds |-> NoHandle],
              !.log = << >>, !.opened = {}, !.fs0 = w.fs, !.cwd0 = w.cwd]

NoCmd == [Stdout |-> "none", Stderr |-> "none"]

\* parseCommand before its loop: i counts the bytes from 1
NoScan == [command |-> EmptyString, i |-> 1, st |-> ParseInit]

\* return "", nil
NoCompletion == [result |-> EmptyString, matches |-> << >>]

\* readInputWithAutocomplete at its first call: input is "", the globals
\* lastTabPrefix and tabPressCount have their zero values, the terminal is in
\* its original mode.  The other fields tell what happened: event is the last
\* event, keys the number of keys of this line, before the buffer before the
\* last key, out what the last key wrote, consulted whether it called
\* autocomplete, tabs the Tab keys since the last character or Backspace key,
\* tabbedAt the buffer at the latest Tab key of this line, retabbed whether
\* the Tab key just handled found the buffer of the Tab key before it, and
\* installed whether a file was added to a search-path directory since the
\* shell started, completion what the last call of autocomplete returned.
Editor0 ==
    [input |-> EmptyString, tabPressCount |-> 0, lastTabPrefix |-> EmptyString,
     raw |-> FALSE, completion |-> NoCompletion,
     event |-> "none", keys |-> 0, before |-> EmptyString, out |-> << >>,
     consulted |-> FALSE, tabs |-> 0, tabbedAt |-> << >>, retabbed |-> FALSE,
     installed |-> FALSE]

(***************************************************************************)
(* The lines the dispatch loop is given: a command, at most one stdout and *)
(* one stderr redirection, possibly a dangling operator; and a few lines   *)
(* with blanks, quotes and a leading operator.                             *)
(***************************************************************************)
Commands == { <<S_echo, S_hi>>, <<S_cd>>, <<S_exit>>, <<S_ls>>, <<S_nosuch>> }

OutRedirs ==
    { << >>, <<OpOut, S_f>>, <<OpOutApp, S_f>>, <<OpOut1, S_f>>, <<OpOut, S_bad>> }

ErrRedirs ==
    { << >>, <<OpErr, S_g>>, <<OpErrApp, S_g>>, <<OpErr, S_f>>, <<OpErr, S_bad>> }

Dangling == { << >> } \cup { <<op>> : op \in RedirOps }

SpaceStr == <<" ">>

ExtraLines ==
    { <<" ", " ">>,
      <<"\"", "\"">>,
      SpaceStr \o Join(<<S_echo, S_hi>>, SpaceStr) \o SpaceStr,
      Join(<<OpOut, S_f, S_echo, S_hi>>, SpaceStr),
      Join(<<S_echo, S_hi, OpOutApp, S_f, OpOut, S_f>>, SpaceStr),
      Join(<<OpOut1>>, SpaceStr),
      <<"\f">>,
      <<"xC2", "xA0">> \o Join(<<S_echo, S_hi>>, SpaceStr) \o <<"x0B">>,
      Join(<<S_cd, <<".">>>>, SpaceStr),
      Join(<<S_cd, <<"~", "/">>>>, SpaceStr),
      Join(<<S_cd, <<"h">>>>, SpaceStr),
      Join(<<S_cd, <<".", ".">>>>, SpaceStr),
      <<"xE3", "x80", "x80">> \o S_ls \o <<"xE2", "x80", "x83">>,
      Join(<<S_echo, S_hi, OpOutApp, <<".", "/", "f">>>>, SpaceStr),
      Join(<<S_echo, S_hi, OpOut, S_home>>, SpaceStr),
      Join(<<S_ls, OpErr, <<".">>>>, SpaceStr) }

\* the lines typed: a command with its redirections, such a line with an
\* operator left dangling at its end, and the lines above
InputLines ==
    { Join(c \o o \o e, SpaceStr) :
        c \in Commands, o \in OutRedirs, e \in ErrRedirs }
    \cup { Join(c \o o \o e \o d, SpaceStr) :
             c \in Commands, o \in OutRedirs,
             e \in { << >>, <<OpErr, S_g>> }, d \in Dangling }
    \cup ExtraLines

(***************************************************************************)
(* main: one line is read, trimmed, tokenized, and its redirections        *)
(* extracted; the command is then dispatched.                              *)
(***************************************************************************)
Init ==
    /\ pc = "prompt"
    /\ cycles = 0
    /\ input = EmptyString
    /\ parsed = << >>
    /\ fields = << >>
    /\ redir = NoRedir
    /\ osStdout = TtyOut
    /\ osStderr = TtyErr
    /\ oldStdout = TtyOut
    /\ oldStderr = TtyErr
    /\ defers = << >>
    /\ cmd = NoCmd
    /\ world = World0
    /\ ghost = NoGhost
    /\ scan = NoScan
    /\ editor = Editor0

\* main prints the prompt, reads a line with readInputWithAutocomplete
\* and trims it; an empty line starts the loop again; when the terminal
\* cannot be put in raw mode the read panics and the process ends; the key
\* Ctrl+C, typed at any point of the line, ends the process with os.Exit(0)
\* and no line is returned
ReadLine ==
    /\ pc = "prompt"
    /\ cycles < MaxCycles
    /\ \/ \E line \in InputLines : \E trimmed \in {TrimSpace(line)} :
             /\ input' = trimmed
             /\ pc' = IF trimmed = EmptyString THEN "prompt" ELSE "parse"
       \/ /\ input' = EmptyString
          /\ pc' = "panicked"
       \/ /\ input' = EmptyString
          /\ pc' = "exited"
    /\ cycles' = cycles + 1
    /\ parsed' = << >>
    /\ fields' = << >>
    /\ redir' = NoRedir
    /\ defers' = << >>
    /\ cmd' = NoCmd
    /\ world' = NewCycle(world)
    /\ ghost' = NoGhost
    /\ UNCHANGED <<osStdout, osStderr, oldStdout, oldStderr>>
    /\ UNCHANGED <<scan, editor>>

Tokenize ==
    /\ pc = "parse"
    /\ parsed' = parseCommand(input)
    /\ pc' = IF Len(parseCommand(input)) = 0 THEN "prompt" ELSE "extract"
    /\ UNCHANGED <<cycles, input, fields, redir, osStdout, osStderr,
                   oldStdout, oldStderr, defers, cmd, world, ghost>>
    /\ UNCHANGED <<scan, editor>>

Extract ==
    /\ pc = "extract"
    /\ LET r == processRedirectionOperators(parsed) IN
          /\ fields' = r.fields
          /\ redir' = [stdoutFile |-> r.stdoutFile, stderrFile |-> r.stderrFile,
                       stdoutAppend |-> r.stdoutAppend,
                       stderrAppend |-> r.stderrAppend]
          /\ ghost' = [ghost EXCEPT !.extracted = TRUE,
                                    !.syntaxError = r.syntaxError]
          /\ world' = IF r.syntaxError
                      THEN Emit(world, osStderr, "shell", SyntaxErrorMsg)
                      ELSE world
          /\ pc' = IF Len(r.fields) = 0 THEN "prompt" ELSE "dispatch"
    /\ UNCHANGED <<cycles, input, parsed, osStdout, osStderr,
                   oldStdout, oldStderr, defers, cmd>>
    /\ UNCHANGED <<scan, editor>>

Dispatch ==
    /\ pc = "dispatch"
    /\ pc' = IF IsBuiltin(fields[1]) THEN "b_stdout" ELSE "e_entry"
    /\ UNCHANGED <<cycles, input, parsed, fields, redir, osStdout, osStderr,
                   oldStdout, oldStderr, defers, cmd, world, ghost>>
    /\ UNCHANGED <<scan, editor>>

(***************************************************************************)
(* Deferred calls.  A dispatcher's return runs them last first; st holds   *)
(* the world and the two process-wide streams.                             *)
(***************************************************************************)
\* (faulty variant: the failure is reported with fmt.Println, on os.Stdout)
ErrorStreamIsStdout(stdoutStream, stderrStream) == stdoutStream

\* the stream the dispatchers report a failed open on: os.Stderr
ErrorStream(stdoutStream, stderrStream) == stderrStream

\* (faulty variant: the stream is restored and the file left open)
RestoreStdoutLeaks(st, old) == [st EXCEPT !.out = old]

RestoreStdout(st, old) ==
    [st EXCEPT !.out = old, !.w = CloseHandle(st.w, "h_out")]

RestoreStderr(st, old) ==
    [st EXCEPT !.err = old, !.w = CloseHandle(st.w, "h_err")]

RunDeferred(st, d, oldOut, oldErr) ==
    CASE d = "restore_stdout" -> RestoreStdout(st, oldOut)
      [] d = "restore_stderr" -> RestoreStderr(st, oldErr)
      [] d = "close_out"      -> [st EXCEPT !.w = CloseHandle(st.w, "h_out")]
      [] d = "close_err"      -> [st EXCEPT !.w = CloseHandle(st.w, "h_err")]

RECURSIVE RunDefers(_, _, _, _)
RunDefers(ds, st, oldOut, oldErr) ==
    IF Len(ds) = 0 THEN st
    ELSE RunDefers(Tail(ds), RunDeferred(st, Head(ds), oldOut, oldErr),
                   oldOut, oldErr)

\* defer f(): f is run first of those deferred so far
Defer(ds, d) == <<d>> \o ds

(***************************************************************************)
(* executeBuiltinWithRedirection.                                          *)
(***************************************************************************)
BuiltinStdout ==
    /\ pc = "b_stdout"
    /\ oldStdout' = osStdout
    /\ oldStderr' = osStderr
    /\ IF redir.stdoutFile # EmptyString
       THEN LET r == openFile(world, "h_out", redir.stdoutFile, redir.stdoutAppend) IN
            IF ~r.ok
            THEN /\ world' = Emit(world, ErrorStream(osStdout, osStderr), "shell",
                                  StdoutOpenErrorMsg(redir.stdoutFile))
                 /\ ghost' = [ghost EXCEPT !.openFailed = TRUE]
                 /\ pc' = "b_return"
                 /\ UNCHANGED <<osStdout, defers>>
            ELSE /\ world' = r.w
                 /\ osStdout' = "h_out"
                 /\ defers' = Defer(defers, "restore_stdout")
                 /\ pc' = "b_stderr"
                 /\ UNCHANGED ghost
       ELSE /\ pc' = "b_stderr"
            /\ UNCHANGED <<world, ghost, osStdout, defers>>
    /\ UNCHANGED <<cycles, input, parsed, fields, redir, osStderr, cmd>>
    /\ UNCHANGED <<scan, editor>>

BuiltinStderr ==
    /\ pc = "b_stderr"
    /\ IF redir.stderrFile # EmptyString
       THEN LET r == openFile(world, "h_err", redir.stderrFile, redir.stderrAppend) IN
            IF ~r.ok
            THEN /\ world' = Emit(world, ErrorStream(osStdout, osStderr), "shell",
                                  StderrOpenErrorMsg(redir.stderrFile))
                 /\ ghost' = [ghost EXCEPT !.openFailed = TRUE]
                 /\ pc' = "b_return"
                 /\ UNCHANGED <<osStderr, defers>>
            ELSE /\ world' = r.w
                 /\ osStderr' = "h_err"
                 /\ defers' = Defer(defers, "restore_stderr")
                 /\ pc' = "b_handler"
                 /\ UNCHANGED ghost
       ELSE /\ pc' = "b_handler"
            /\ UNCHANGED <<world, ghost, osStderr, defers>>
    /\ UNCHANGED <<cycles, input, parsed, fields, redir, osStdout,
                   oldStdout, oldStderr, cmd>>
    /\ UNCHANGED <<scan, editor>>

BuiltinHandler ==
    /\ pc = "b_handler"
    /\ LET r == RunHandler(world, osStdout, fields) IN
          /\ world' = r.w
          /\ pc' = IF r.exited THEN "exited" ELSE "b_return"
    /\ ghost' = [ghost EXCEPT !.handlerRan = TRUE]
    /\ UNCHANGED <<cycles, input, parsed, fields, redir, osStdout, osStderr,
                   oldStdout, oldStderr, defers, cmd>>
    /\ UNCHANGED <<scan, editor>>

BuiltinReturn ==
    /\ pc = "b_return"
    /\ LET st == RunDefers(defers, [w |-> world, out |-> osStdout, err |-> osStderr],
                           oldStdout, oldStderr) IN
          /\ world' = st.w
          /\ osStdout' = st.out
          /\ osStderr' = st.err
    /\ defers' = << >>
    /\ pc' = "prompt"
    /\ UNCHANGED <<cycles, input, parsed, fields, redir, oldStdout, oldStderr,
                   cmd, ghost>>
    /\ UNCHANGED <<scan, editor>>

(***************************************************************************)
(* executeExternalWithRedirection, executeCommand and outputError.         *)
(***************************************************************************)
HasRedirection == redir.stdoutFile # EmptyString \/ redir.stderrFile # EmptyString

\* the stream executeCommand prints its message with: fmt.Println
CommandErrorStream(stdoutStream, stderrStream) == stdoutStream

\* cmd.Run() of executeCommand returned an error
RunFailed(status) == status # "ok"

\* the process writes its lines to the streams it was given
ProcessWrites(w, b, out, err) ==
    IF b.status = "launch_error" THEN w
    ELSE EmitAll(EmitAll(w, out, "child", b.out), err, "child", b.err)

executeCommand ==
    /\ pc = "e_entry"
    /\ ~HasRedirection
    /\ IF ~LookPathOk(fields[1])
       THEN /\ world' = Emit(world, CommandErrorStream(osStdout, osStderr), "shell",
                             NotFoundMsg(fields[1]))
            /\ UNCHANGED ghost
       ELSE \E b \in ProcBehaviours :
            /\ world' =
                 LET w1 == ProcessWrites(world, b, osStdout, osStderr) IN
                 IF RunFailed(b.status)
                 THEN Emit(w1, CommandErrorStream(osStdout, osStderr), "shell",
                           NotFoundMsg(fields[1]))
                 ELSE w1
            /\ ghost' = [ghost EXCEPT !.resolved = TRUE,
                                      !.launched = (b.status # "launch_error"),
                                      !.status = b.status]
    /\ pc' = "prompt"
    /\ UNCHANGED <<cycles, input, parsed, fields, redir, osStdout, osStderr,
                   oldStdout, oldStderr, defers, cmd>>
    /\ UNCHANGED <<scan, editor>>

outputError(w, errStream, cmdName, stderrFile, appendMode) ==
    IF stderrFile # EmptyString
    THEN LET r == openFile(w, "h_msg", stderrFile, appendMode) IN
         IF ~r.ok
         THEN Emit(w, errStream, "shell", StderrOpenErrorMsg(stderrFile))
         ELSE CloseHandle(Emit(r.w, "h_msg", "shell", NotFoundMsg(cmdName)), "h_msg")
    ELSE Emit(w, errStream, "shell", NotFoundMsg(cmdName))

ExternalLookPath ==
    /\ pc = "e_entry"
    /\ HasRedirection
    /\ IF ~LookPathOk(fields[1])
       THEN /\ world' = outputError(world, osStderr, fields[1],
                                    redir.stderrFile, redir.stderrAppend)
            /\ ghost' = [ghost EXCEPT !.openFailed =
                            /\ redir.stderrFile # EmptyString
                            /\ OpenFails(world.cwd, redir.stderrFile)]
            /\ pc' = "prompt"
       ELSE /\ ghost' = [ghost EXCEPT !.resolved = TRUE]
            /\ pc' = "e_stdout"
            /\ UNCHANGED world
    /\ UNCHANGED <<cycles, input, parsed, fields, redir, osStdout, osStderr,
                   oldStdout, oldStderr, defers, cmd>>
    /\ UNCHANGED <<scan, editor>>

ExternalStdout ==
    /\ pc = "e_stdout"
    /\ IF redir.stdoutFile # EmptyString
       THEN LET r == openFile(world, "h_out", redir.stdoutFile, redir.stdoutAppend) IN
            IF ~r.ok
            THEN /\ world' = Emit(world, ErrorStream(osStdout, osStderr), "shell",
                                  StdoutOpenErrorMsg(redir.stdoutFile))
                 /\ ghost' = [ghost EXCEPT !.openFailed = TRUE]
                 /\ pc' = "e_return"
                 /\ UNCHANGED <<cmd, defers>>
            ELSE /\ world' = r.w
                 /\ cmd' = [cmd EXCEPT !.Stdout = "h_out"]
                 /\ defers' = Defer(defers, "close_out")
                 /\ pc' = "e_stderr"
                 /\ UNCHANGED ghost
       ELSE /\ cmd' = [cmd EXCEPT !.Stdout = osStdout]
            /\ pc' = "e_stderr"
            /\ UNCHANGED <<world, ghost, defers>>
    /\ UNCHANGED <<cycles, input, parsed, fields, redir, osStdout, osStderr,
                   oldStdout, oldStderr>>
    /\ UNCHANGED <<scan, editor>>

ExternalStderr ==
    /\ pc = "e_stderr"
    /\ IF redir.stderrFile # EmptyString
       THEN LET r == openFile(world, "h_err", redir.stderrFile, redir.stderrAppend) IN
            IF ~r.ok
            THEN /\ world' = Emit(world, ErrorStream(osStdout, osStderr), "shell",
                                  StderrOpenErrorMsg(redir.stderrFile))
                 /\ ghost' = [ghost EXCEPT !.openFailed = TRUE]
                 /\ pc' = "e_return"
                 /\ UNCHANGED <<cmd, defers>>
            ELSE /\ world' = r.w
                 /\ cmd' = [cmd EXCEPT !.Stderr = "h_err"]
                 /\ defers' = Defer(defers, "close_err")
                 /\ pc' = "e_run"
                 /\ UNCHANGED ghost
       ELSE /\ cmd' = [cmd EXCEPT !.Stderr = osStderr]
            /\ pc' = "e_run"
            /\ UNCHANGED <<world, ghost, defers>>
    /\ UNCHANGED <<cycles, input, parsed, fields, redir, osStdout, osStderr,
                   oldStdout, oldStderr>>
    /\ UNCHANGED <<scan, editor>>

ExternalRun ==
    /\ pc = "e_run"
    /\ \E b \in ProcBehaviours :
          /\ world' = ProcessWrites(world, b, cmd.Stdout, cmd.Stderr)
          /\ ghost' = [ghost EXCEPT !.launched = (b.status # "launch_error"),
                                    !.status = b.status]
    /\ pc' = "e_return"
    /\ UNCHANGED <<cycles, input, parsed, fields, redir, osStdout, osStderr,
                   oldStdout, oldStderr, defers, cmd>>
    /\ UNCHANGED <<scan, editor>>

ExternalReturn ==
    /\ pc = "e_return"
    /\ LET st == RunDefers(defers, [w |-> world, out |-> osStdout, err |-> osStderr],
                           oldStdout, oldStderr) IN
          /\ world' = st.w
          /\ osStdout' = st.out
          /\ osStderr' = st.err
    /\ defers' = << >>
    /\ pc' = "prompt"
    /\ UNCHANGED <<cycles, input, parsed, fields, redir, oldStdout, oldStderr,
                   cmd, ghost>>
    /\ UNCHANGED <<scan, editor>>

Next ==
    \/ ReadLine
    \/ Tokenize
    \/ Extract
    \/ Dispatch
    \/ BuiltinStdout
    \/ BuiltinStderr
    \/ BuiltinHandler
    \/ BuiltinReturn
    \/ executeCommand
    \/ ExternalLookPath
    \/ ExternalStdout
    \/ ExternalStderr
    \/ ExternalRun
    \/ ExternalReturn

Spec == Init /\ [][Next]_vars

\* the steps of a dispatch cycle, from the line read to the next prompt
CycleStep ==
    \/ Tokenize
    \/ Extract
    \/ Dispatch
    \/ BuiltinStdout
    \/ BuiltinStderr
    \/ BuiltinHandler
    \/ BuiltinReturn
    \/ executeCommand
    \/ ExternalLookPath
    \/ ExternalStdout
    \/ ExternalStderr
    \/ ExternalRun
    \/ ExternalReturn

(***************************************************************************)
(* The extractor alone: main has a non-empty token list in hand (line 44)  *)
(* and extracts its redirections.  Every list of at most MaxTokens tokens  *)
(* over the six operators and two words.                                   *)
(***************************************************************************)
ExtractVocabulary == RedirOps \cup {S_f, S_g}

InitExtract ==
    /\ pc = "extract"
    /\ cycles = 1
    /\ parsed \in BoundedSeq(ExtractVocabulary, MaxTokens) \ {<< >>}
    /\ input = Join(parsed, SpaceStr)
    /\ fields = << >>
    /\ redir = NoRedir
    /\ osStdout = TtyOut
    /\ osStderr = TtyErr
    /\ oldStdout = TtyOut
    /\ oldStderr = TtyErr
    /\ defers = << >>
    /\ cmd = NoCmd
    /\ world = World0
    /\ ghost = NoGhost
    /\ scan = NoScan
    /\ editor = Editor0

NextExtract == Extract

SpecExtract == InitExtract /\ [][NextExtract]_vars

(***************************************************************************)
(* The tokenizer and the extractor in sequence: main has a trimmed,        *)
(* non-empty line in hand (line 39).  Every line of at most MaxLineLen     *)
(* characters over a small alphabet with the quotes and the backslash.     *)
(***************************************************************************)
PipelineAlphabet == {"e", ">", "2", " ", "\"", "'", "\\"}

\* lines with a command, an operator inside quotes or after a backslash, and
\* a file name
QuotedOperatorLines ==
    { <<"e", " ", "'", ">", "'", " ", "e">>,
      <<"e", " ", "\\", ">", " ", "e">>,
      <<"e", " ", "\"", "2", ">", "\"", " ", "e">>,
      <<"e", " ", "'", ">", ">", "'", " ", "e">>,
      <<"e", " ", "2", "\\", ">", "\\", ">", " ", "e">> }

PipelineLines ==
    ({ TrimSpace(l) : l \in BoundedSeq(PipelineAlphabet, MaxLineLen) } \ {EmptyString})
    \cup QuotedOperatorLines

InitPipeline ==
    /\ pc = "parse"
    /\ cycles = 1
    /\ input \in PipelineLines
    /\ parsed = << >>
    /\ fields = << >>
    /\ redir = NoRedir
    /\ osStdout = TtyOut
    /\ osStderr = TtyErr
    /\ oldStdout = TtyOut
    /\ oldStderr = TtyErr
    /\ defers = << >>
    /\ cmd = NoCmd
    /\ world = World0
    /\ ghost = NoGhost
    /\ scan = NoScan
    /\ editor = Editor0

NextPipeline ==
    \/ Tokenize
    \/ Extract

SpecPipeline == InitPipeline /\ [][NextPipeline]_vars

(***************************************************************************)
(* parseCommand alone, one loop iteration at a time: every string of at    *)
(* most MaxLineLen characters over a small alphabet with the blank, the    *)
(* tab, the quotes, the backslash and the dollar sign.                     *)
(***************************************************************************)
TokenizeAlphabet == {"a", " ", "\t", "'", "\"", "\\", "$"}

InitTokenize ==
    /\ pc = "t_loop"
    /\ cycles = 1
    /\ input \in BoundedSeq(TokenizeAlphabet, MaxLineLen)
    /\ scan = [command |-> input, i |-> 1, st |-> ParseInit]
    /\ parsed = << >>
    /\ fields = << >>
    /\ redir = NoRedir
    /\ osStdout = TtyOut
    /\ osStderr = TtyErr
    /\ oldStdout = TtyOut
    /\ oldStderr = TtyErr
    /\ defers = << >>
    /\ cmd = NoCmd
    /\ world = World0
    /\ ghost = NoGhost
    /\ editor = Editor0

\* for i := 0; i < len(command); i++ { c := command[i]; ... }
ParseLoop ==
    /\ pc = "t_loop"
    /\ scan.i <= Len(scan.command)
    /\ scan' = [scan EXCEPT !.i = scan.i + 1,
                            !.st = ParseStep(scan.st, scan.command[scan.i])]
    /\ UNCHANGED <<pc, cycles, input, parsed, fields, redir, osStdout, osStderr,
                   oldStdout, oldStderr, defers, cmd, world, ghost, editor>>

\* the loop is over: the last token is flushed and the result returned
ParseReturn ==
    /\ pc = "t_loop"
    /\ scan.i > Len(scan.command)
    /\ parsed' = ParseFinish(scan.st)
    /\ pc' = "t_done"
    /\ UNCHANGED <<cycles, input, fields, redir, osStdout, osStderr,
                   oldStdout, oldStderr, defers, cmd, world, ghost, scan, editor>>

NextTokenize ==
    \/ ParseLoop
    \/ ParseReturn

SpecTokenize == InitTokenize /\ [][NextTokenize]_vars

\* the loop is a plain for loop of a running function: it keeps going
SpecTokenizeFair == SpecTokenize /\ WF_vars(NextTokenize)

(***************************************************************************)
(* autocomplete: the candidates, their order, and the result.              *)
(***************************************************************************)
S_lib  == <<"l", "i", "b">>
S_ll   == <<"l", "l">>
S_lel  == <<"l", "e", "l">>
S_exa  == <<"e", "x", "a">>
S_x_e  == <<"x", " ", "e">>

HasPrefix(s, prefix) ==
    Len(prefix) <= Len(s) /\ SubSeq(s, 1, Len(prefix)) = prefix

TrimPrefix(s, prefix) ==
    IF HasPrefix(s, prefix) THEN SubSeq(s, Len(prefix) + 1, Len(s)) ELSE s

\* (faulty variant: the test for a space is never true)
ContainsSpaceNever(s) == FALSE

\* strings.Contains(prefix, " ")
ContainsSpace(s) == \E k \in 1..Len(s) : s[k] = " "

\* the value of a byte, for the comparison of strings
ByteCode(c) ==
    CASE c = " " -> 32
      [] c = "a" -> 97
      [] c = "b" -> 98
      [] c = "c" -> 99
      [] c = "d" -> 100
      [] c = "e" -> 101
      [] c = "h" -> 104
      [] c = "i" -> 105
      [] c = "l" -> 108
      [] c = "o" -> 111
      [] c = "p" -> 112
      [] c = "t" -> 116
      [] c = "w" -> 119
      [] c = "x" -> 120
      [] c = "y" -> 121
      [] c = "xA9" -> 169
      [] c = "xC3" -> 195

\* a < b for Go strings: byte by byte
RECURSIVE StringLess(_, _)
StringLess(a, b) ==
    IF Len(b) = 0 THEN FALSE
    ELSE IF Len(a) = 0 THEN TRUE
    ELSE IF ByteCode(a[1]) < ByteCode(b[1]) THEN TRUE
    ELSE IF ByteCode(b[1]) < ByteCode(a[1]) THEN FALSE
    ELSE StringLess(Tail(a), Tail(b))

RECURSIVE InsertSorted(_, _)
InsertSorted(x, sorted) ==
    IF Len(sorted) = 0 THEN <<x>>
    ELSE IF StringLess(sorted[1], x)
    THEN <<sorted[1]>> \o InsertSorted(x, Tail(sorted))
    ELSE <<x>> \o sorted

\* (faulty variant: the matches are left in the order they were found)
SortStringsMissing(strs) == strs

\* sort.Strings
RECURSIVE SortStrings(_)
SortStrings(strs) ==
    IF Len(strs) = 0 THEN << >>
    ELSE InsertSorted(strs[1], SortStrings(Tail(strs)))

\* the directories of PATH as os.ReadDir lists them (entries by name): a
\* directory with files (one has a space in its name) and a subdirectory, one
\* that cannot be read, and one that gets a new file while the shell runs
PathDirs(installed) ==
    << [ok |-> TRUE,
        entries |-> << [name |-> S_exa, isDir |-> FALSE],
                       [name |-> S_lib, isDir |-> TRUE],
                       [name |-> S_ll,  isDir |-> FALSE],
                       [name |-> S_lle, isDir |-> FALSE],
                       [name |-> S_x_e, isDir |-> FALSE] >>],
       [ok |-> FALSE, entries |-> << >>],
       [ok |-> TRUE,
        entries |-> IF installed
                    THEN << [name |-> S_lel, isDir |-> FALSE],
                            [name |-> S_ll,  isDir |-> FALSE] >>
                    ELSE << [name |-> S_ll,  isDir |-> FALSE] >>] >>

\* strings.HasPrefix(name, prefix) && name != prefix
IsMatch(name, prefix) == HasPrefix(name, prefix) /\ name # prefix

\* the loop over builtinCMDs
BuiltinMatches(prefix) ==
    LET Test(name) == IsMatch(name, prefix) IN SelectSeq(builtinCMDs, Test)

\* found[name]: name was appended before
Found(matches, name) == \E k \in 1..Len(matches) : matches[k] = name

\* the loop over the entries of one directory
RECURSIVE ScanEntries(_, _, _)
ScanEntries(entries, prefix, matches) ==
    IF Len(entries) = 0 THEN matches
    ELSE LET file == entries[1] IN
         ScanEntries(Tail(entries), prefix,
            IF ~file.isDir /\ IsMatch(file.name, prefix)
               /\ ~Found(matches, file.name)
            THEN Append(matches, file.name)
            ELSE matches)

\* the loop over the directories of PATH
RECURSIVE ScanDirs(_, _, _)
ScanDirs(dirs, prefix, matches) ==
    IF Len(dirs) = 0 THEN matches
    ELSE ScanDirs(Tail(dirs), prefix,
            IF ~dirs[1].ok THEN matches
            ELSE ScanEntries(dirs[1].entries, prefix, matches))

\* (faulty variant: the directories are searched whatever the built-ins gave)
CollectMatchesBoth(prefix, installed) ==
    ScanDirs(PathDirs(installed), prefix, BuiltinMatches(prefix))

\* the matches before they are sorted
CollectMatches(prefix, installed) ==
    IF Len(BuiltinMatches(prefix)) = 0
    THEN ScanDirs(PathDirs(installed), prefix, << >>)
    ELSE BuiltinMatches(prefix)

\* (faulty variant: the empty prefix is searched like any other)
autocompleteNoEmptyCheck(prefix, tabCount, installed) ==
    LET matches == CollectMatches(prefix, installed) IN
    IF Len(matches) = 0 THEN NoCompletion
    ELSE IF Len(SortStrings(matches)) = 1
    THEN [result |-> TrimPrefix(SortStrings(matches)[1], prefix),
          matches |-> << >>]
    ELSE [result |-> EmptyString, matches |-> SortStrings(matches)]

\* autocomplete(prefix, tabCount): the pair it returns, nil being << >>
autocomplete(prefix, tabCount, installed) ==
    IF prefix = EmptyString THEN NoCompletion
    ELSE LET matches == CollectMatches(prefix, installed) IN
         IF Len(matches) = 0 THEN NoCompletion
         ELSE IF Len(SortStrings(matches)) = 1
         THEN [result |-> TrimPrefix(SortStrings(matches)[1], prefix),
               matches |-> << >>]
         ELSE [result |-> EmptyString, matches |-> SortStrings(matches)]

(***************************************************************************)
(* readInputWithAutocomplete: one action per key.                          *)
(***************************************************************************)
EAcute == "e_acute"

\* the runes typed in the model; one of them takes two bytes
EditorRunes == {"e", "x", "l", "c", " ", EAcute}

\* string(rn): the UTF-8 bytes of the rune
RuneBytes(rn) == IF rn = EAcute THEN <<"xC3", "xA9">> ELSE <<rn>>

\* what is written to the terminal
Bell == [kind |-> "bell", text |-> EmptyString]
NewLine == [kind |-> "newline", text |-> EmptyString]
Prompt == [kind |-> "prompt", text |-> EmptyString]
ReadErrorMsg == [kind |-> "Error reading input:", text |-> EmptyString]

printPromptWithInput(text) == [kind |-> "redraw", text |-> text]

TwoSpaces == <<" ", " ">>

printAllMatches(matches) ==
    << NewLine, [kind |-> "matches", text |-> Join(matches, TwoSpaces)], NewLine >>

\* (faulty variant: the Tab state survives a modification of the buffer)
ResetTabMissing(ed) == ed

\* tabPressCount = 0; lastTabPrefix = ""
ResetTab(ed) ==
    [ed EXCEPT !.tabPressCount = 0, !.lastTabPrefix = EmptyString]

\* (faulty variant: the completed name is not followed by a space)
CompleteInputNoSpace(text, result) == text \o result

\* input += result + " "
CompleteInput(text, result) == text \o result \o <<" ">>

\* (faulty variant: the terminal is left as it is)
RestoreMissing(ed) == ed

\* term.Restore(int(rd.Fd()), oldState): deferred, and called before os.Exit
Restore(ed) == [ed EXCEPT !.raw = FALSE]

\* what every key records about itself
KeyEvent(ed, kind) ==
    [ed EXCEPT !.event = kind, !.keys = ed.keys + 1, !.before = ed.input,
               !.out = << >>, !.consulted = FALSE, !.retabbed = FALSE,
               !.completion = NoCompletion,
               !.tabs = IF kind = "tab" THEN ed.tabs + 1 ELSE 0,
               !.tabbedAt = IF kind = "tab" THEN <<ed.input>> ELSE ed.tabbedAt]

EditorUnchanged ==
    UNCHANGED <<cycles, input, parsed, fields, redir, osStdout, osStderr,
                oldStdout, oldStderr, defers, cmd, world, ghost, scan>>

\* main prints the prompt and calls readInputWithAutocomplete, which puts the
\* terminal in raw mode and starts with an empty input; the input of main is
\* a new variable in every iteration of its loop; when term.MakeRaw reports
\* an error (the input is no terminal) the function panics after the prompt
\* was written: the process ends, no key is read and raw mode is not entered
EditorStart ==
    /\ pc = "prompt"
    /\ cycles < MaxCycles
    /\ cycles' = cycles + 1
    /\ \E makeRawErr \in BOOLEAN :
          /\ pc' = IF makeRawErr THEN "panicked" ELSE "read"
          /\ editor' = [editor EXCEPT
                    !.input = EmptyString, !.raw = ~makeRawErr,
                    !.event = IF makeRawErr THEN "panic" ELSE "start",
                    !.keys = 0, !.before = EmptyString, !.out = <<Prompt>>,
                    !.consulted = FALSE, !.tabs = 0, !.tabbedAt = << >>,
                    !.retabbed = FALSE]
    /\ parsed' = << >>
    /\ fields' = << >>
    /\ redir' = NoRedir
    /\ defers' = << >>
    /\ cmd' = NoCmd
    /\ world' = NewCycle(world)
    /\ ghost' = NoGhost
    /\ input' = EmptyString
    /\ UNCHANGED <<osStdout, osStderr, oldStdout, oldStderr, scan>>

\* default: input += string(rn)
KeyRune ==
    /\ pc = "read"
    /\ editor.keys < MaxKeys
    /\ \E rn \in EditorRunes :
          LET ed == KeyEvent(editor, "rune")
              text == editor.input \o RuneBytes(rn)
          IN  editor' = [ResetTab(ed) EXCEPT
                           !.input = text,
                           !.out = <<printPromptWithInput(text)>>]
    /\ UNCHANGED pc
    /\ EditorUnchanged

\* case '\x7F': input = input[:len(input)-1], one byte
KeyBackspace ==
    /\ pc = "read"
    /\ editor.keys < MaxKeys
    /\ LET ed == KeyEvent(editor, "backspace")
           text == IF Len(editor.input) > 0
                   THEN SubSeq(editor.input, 1, Len(editor.input) - 1)
                   ELSE editor.input
       IN  editor' = [ResetTab(ed) EXCEPT
                        !.input = text,
                        !.out = <<printPromptWithInput(text)>>]
    /\ UNCHANGED pc
    /\ EditorUnchanged

\* (faulty variant: the prefix is not remembered)
CountTabForgetsPrefix(ed, prefix) ==
    IF prefix # ed.lastTabPrefix
    THEN [ed EXCEPT !.tabPressCount = 1]
    ELSE [ed EXCEPT !.tabPressCount = ed.tabPressCount + 1]

\* if prefix != lastTabPrefix { tabPressCount = 0; lastTabPrefix = prefix }
\* tabPressCount++
CountTab(ed, prefix) ==
    IF prefix # ed.lastTabPrefix
    THEN [ed EXCEPT !.tabPressCount = 1, !.lastTabPrefix = prefix]
    ELSE [ed EXCEPT !.tabPressCount = ed.tabPressCount + 1]

\* case '\t'
TabKey(editor0) ==
    LET prefix == editor0.input
        ed == [KeyEvent(editor0, "tab") EXCEPT
                 !.retabbed = (editor0.tabbedAt = <<prefix>>)]
    IN  IF ContainsSpace(prefix)
        THEN ResetTab(ed)
        ELSE LET counting == CountTab(ed, prefix)
                 r == autocomplete(prefix, counting.tabPressCount, ed.installed)
                 counted == [counting EXCEPT !.consulted = TRUE, !.completion = r]
             IN  IF Len(r.matches) > 1 /\ counted.tabPressCount > 1
                 THEN [counted EXCEPT
                         !.out = printAllMatches(r.matches)
                                 \o <<printPromptWithInput(prefix)>>]
                 ELSE IF r.result # EmptyString
                 THEN [ResetTab(counted) EXCEPT
                         !.input = CompleteInput(prefix, r.result),
                         !.out = <<printPromptWithInput(
                                      CompleteInput(prefix, r.result))>>]
                 ELSE [counted EXCEPT !.out = <<Bell>>]

KeyTab ==
    /\ pc = "read"
    /\ editor.keys < MaxKeys
    /\ editor' = TabKey(editor)
    /\ UNCHANGED pc
    /\ EditorUnchanged

\* case '\r', '\n': the input is returned, the deferred term.Restore runs, and
\* main trims the line
KeyEnter ==
    /\ pc = "read"
    /\ editor' = [Restore(ResetTab(KeyEvent(editor, "enter"))) EXCEPT
                    !.out = <<NewLine>>]
    /\ input' = TrimSpace(editor.input)
    /\ pc' = IF TrimSpace(editor.input) = EmptyString THEN "prompt" ELSE "parse"
    /\ UNCHANGED <<cycles, parsed, fields, redir, osStdout, osStderr,
                   oldStdout, oldStderr, defers, cmd, world, ghost, scan>>

\* case '\x03': term.Restore and os.Exit(0)
KeyCtrlC ==
    /\ pc = "read"
    /\ editor' = [Restore(KeyEvent(editor, "ctrl_c")) EXCEPT
                    !.tabs = editor.tabs]
    /\ pc' = "exited"
    /\ EditorUnchanged

\* r.ReadRune() returned an error: the message is printed and the loop goes on
ReadError ==
    /\ pc = "read"
    /\ editor.event # "read_error"
    /\ editor' = [editor EXCEPT !.event = "read_error", !.out = <<ReadErrorMsg>>]
    /\ UNCHANGED pc
    /\ EditorUnchanged

\* a file appears in a directory of PATH while the shell waits for a key
PathChanges ==
    /\ pc = "read"
    /\ ~editor.installed
    /\ editor' = [editor EXCEPT !.installed = TRUE, !.event = "path_changed"]
    /\ UNCHANGED pc
    /\ EditorUnchanged

NextEditor ==
    \/ EditorStart
    \/ KeyRune
    \/ KeyBackspace
    \/ KeyTab
    \/ KeyEnter
    \/ KeyCtrlC
    \/ ReadError
    \/ PathChanges

SpecEditor == Init /\ [][NextEditor]_vars

(***************************************************************************)
(* The shell at a terminal: the lines come from the line editor.  The keys *)
(* of the model type no redirection operator, so that the dispatchers are  *)
(* entered without target files.                                           *)
(***************************************************************************)
NextShell ==
    \/ EditorStart
    \/ KeyRune
    \/ KeyBackspace
    \/ KeyTab
    \/ KeyEnter
    \/ KeyCtrlC
    \/ ReadError
    \/ PathChanges
    \/ Tokenize
    \/ Extract
    \/ Dispatch
    \/ BuiltinStdout
    \/ BuiltinStderr
    \/ BuiltinHandler
    \/ BuiltinReturn
    \/ executeCommand

SpecShell == Init /\ [][NextShell]_vars

(***************************************************************************)
(* autocomplete alone, with the prefixes and attempt numbers of its call.  *)
(***************************************************************************)
\* the bytes of the prefixes: no space among them, as the one call of
\* autocomplete is reached only with a prefix that holds no space
CompleteAlphabet == {"e", "x", "l", "c"}

\* the attempt numbers autocomplete is called with
TabCounts == 1..MaxKeys

InitComplete ==
    /\ pc = "complete"
    /\ cycles = 1
    /\ input = EmptyString
    /\ parsed = << >>
    /\ fields = << >>
    /\ redir = NoRedir
    /\ osStdout = TtyOut
    /\ osStderr = TtyErr
    /\ oldStdout = TtyOut
    /\ oldStderr = TtyErr
    /\ defers = << >>
    /\ cmd = NoCmd
    /\ world = World0
    /\ ghost = NoGhost
    /\ scan = NoScan
    /\ \E prefix \in BoundedSeq(CompleteAlphabet, MaxLineLen),
          tabCount \in TabCounts, installed \in BOOLEAN :
          editor = [Editor0 EXCEPT !.input = prefix, !.tabPressCount = tabCount,
                                   !.installed = installed]

\* result, matches := autocomplete(prefix, tabPressCount)
Complete ==
    /\ pc = "complete"
    /\ editor' = [editor EXCEPT
                    !.consulted = TRUE,
                    !.completion = autocomplete(editor.input, editor.tabPressCount,
                                                editor.installed)]
    /\ pc' = "completed"
    /\ EditorUnchanged

NextComplete == Complete

SpecComplete == InitComplete /\ [][NextComplete]_vars

(***************************************************************************)
(* What the claims speak of, stated without reference to the scan.         *)
(***************************************************************************)
\* token i is an operator in operator position: one of the six operator
\* strings, and not the filename of an operator in operator position
RECURSIVE IsOperatorPosition(_, _)
IsOperatorPosition(tokens, i) ==
    /\ i \in 1..Len(tokens)
    /\ tokens[i] \in RedirOps
    /\ (i = 1 \/ ~IsOperatorPosition(tokens, i - 1))

IsFilePosition(tokens, i) == i > 1 /\ IsOperatorPosition(tokens, i - 1)

StdoutOperatorPositions(tokens) ==
    { i \in 1..Len(tokens) : IsOperatorPosition(tokens, i) /\ tokens[i] \in StdoutOps }

StderrOperatorPositions(tokens) ==
    { i \in 1..Len(tokens) : IsOperatorPosition(tokens, i) /\ tokens[i] \in StderrOps }

Last(S) == CHOOSE m \in S : \A x \in S : x <= m

RECURSIVE KeptFrom(_, _)
KeptFrom(tokens, i) ==
    IF i > Len(tokens) THEN << >>
    ELSE IF IsOperatorPosition(tokens, i) \/ IsFilePosition(tokens, i)
    THEN KeptFrom(tokens, i + 1)
    ELSE <<tokens[i]>> \o KeptFrom(tokens, i + 1)

KeptTokens(tokens) == KeptFrom(tokens, 1)

ExtractSucceeded == ghost.extracted /\ ~ghost.syntaxError

StreamsAreOriginal == osStdout = TtyOut /\ osStderr = TtyErr

NoHandleOpen == \A h \in HandleIds : world.handles[h].state # "open"

OpenErrorKinds ==
    { "Error opening file for stdout redirection:",
      "Error opening file for stderr redirection:" }

(***************************************************************************)
(* The claims.                                                             *)
(***************************************************************************)

\* C1: whenever a dispatcher has returned, and so at the start of every
\* dispatch cycle and of every dispatcher call, os.Stdout and os.Stderr are
\* the streams they were before the call and no file opened for redirection
\* is still open.
C1_StreamsRestoredFilesClosed ==
    pc \in {"prompt", "parse", "extract", "dispatch", "b_stdout", "e_entry"}
    => /\ StreamsAreOriginal
       /\ osStdout = oldStdout /\ osStderr = oldStderr
       /\ NoHandleOpen

\* C1 witness: a built-in ran with both streams redirected and returned.
C1_Witness ==
    /\ pc = "prompt"
    /\ ghost.handlerRan
    /\ world.handles["h_out"].state = "closed"
    /\ world.handles["h_err"].state = "closed"

\* C2: in a cycle in which a redirection target failed to open, no handler
\* ran and no process was launched, the only thing written is the failure
\* message, on the shell's own stderr, no file holds such a message, and once
\* the cycle is over the streams are the original ones, no handle is open and
\* the next line can be read.
C2_OpenFailureAbortsCycleOnly ==
    ghost.openFailed
    => /\ ~ghost.handlerRan
       /\ ~ghost.launched
       /\ Len(world.log) = 1
       /\ world.log[1].by = "shell"
       /\ world.log[1].tty = TtyErr
       /\ world.log[1].msg \in { StdoutOpenErrorMsg(redir.stdoutFile),
                                 StderrOpenErrorMsg(redir.stderrFile) }
       /\ \A n \in DOMAIN world.fs : \A k \in 1..Len(world.fs[n]) :
             world.fs[n][k].kind \notin OpenErrorKinds
       /\ pc \in {"b_return", "e_return", "prompt"}
       /\ (pc = "prompt"
           => /\ StreamsAreOriginal
              /\ NoHandleOpen
              /\ (cycles < MaxCycles => ENABLED ReadLine))

\* C2 witness: the stderr target failed to open after the stdout target was
\* opened, the cycle is over and another line can be read.
C2_Witness ==
    /\ ghost.openFailed
    /\ pc = "prompt"
    /\ world.handles["h_out"].state = "closed"
    /\ cycles < MaxCycles

\* the file a target name of the cycle denotes
FileOf(fileName) == FilePath(world.cwd0, fileName).path

\* C3 (as claimed): at the end of a cycle whose command is no built-in and is
\* not found on the search path, the shell has written "<name>: command not
\* found" into the stderr target when one is given, and on its own stderr
\* otherwise.
C3_NotFoundGoesToStderr ==
    (/\ pc = "prompt"
     /\ ghost.extracted
     /\ Len(fields) > 0
     /\ ~IsBuiltin(fields[1])
     /\ ~LookPathOk(fields[1]))
    => \E k \in 1..Len(world.log) :
          /\ world.log[k].by = "shell"
          /\ world.log[k].msg = NotFoundMsg(fields[1])
          /\ IF redir.stderrFile # EmptyString
             THEN /\ world.log[k].tty = "none"
                  /\ world.log[k].file = FileOf(redir.stderrFile)
             ELSE world.log[k].tty = TtyErr

\* C4 (as claimed): when a launched process ended with a nonzero status, the
\* shell itself has written nothing in that cycle.
C4_NonzeroExitNotReported ==
    (ghost.launched /\ ghost.status = "nonzero")
    => \A k \in 1..Len(world.log) : world.log[k].by # "shell"

\* C5: when the last token is an operator in operator position, extraction
\* fails: no command tokens, no targets, no flags; the cycle ends there with
\* no handler run, no program looked up or launched, no file opened, and the
\* syntax error on the shell's own stderr as the only thing written.
C5_DanglingOperatorDiscardsLine ==
    (ghost.extracted /\ IsOperatorPosition(parsed, Len(parsed)))
    => /\ ghost.syntaxError
       /\ fields = << >>
       /\ redir = NoRedir
       /\ pc = "prompt"
       /\ ~ghost.handlerRan
       /\ ~ghost.resolved
       /\ ~ghost.launched
       /\ world.opened = {}
       /\ world.log = << [by |-> "shell", tty |-> TtyErr, file |-> EmptyString,
                          msg |-> SyntaxErrorMsg] >>

\* C5 witness: a line with a well-formed redirection followed by a dangling
\* operator was discarded.
C5_Witness ==
    /\ ghost.syntaxError
    /\ pc = "prompt"
    /\ Len(parsed) = 5
    /\ IsOperatorPosition(parsed, 3)
    /\ IsOperatorPosition(parsed, 5)

\* C6 (as claimed): a first token that is one of the six operator strings is
\* kept as the command name, and the second token is not consumed as its
\* filename.
C6_FirstTokenNeverOperator ==
    (ghost.extracted /\ parsed[1] \in RedirOps)
    => /\ Len(fields) >= 1
       /\ fields[1] = parsed[1]
       /\ (Len(parsed) >= 2 /\ parsed[2] \notin RedirOps
           => Len(fields) >= 2 /\ fields[2] = parsed[2])

\* C6 (amended): operator recognition applies to the first token too.  A first
\* token that is an operator string is a syntax error when it is the only
\* token; otherwise the second token is consumed as its filename (the target
\* of its stream unless a later operator of that stream overrides it), and
\* the command tokens are those kept of the third token onwards.
C6_FirstTokenIsScanned ==
    (ghost.extracted /\ parsed[1] \in RedirOps)
    => /\ (Len(parsed) = 1 => ghost.syntaxError)
       /\ (~ghost.syntaxError
           => /\ fields = KeptTokens(SubSeq(parsed, 3, Len(parsed)))
              /\ \A k \in 1..Len(fields) : fields[k] \notin RedirOps
              /\ (StdoutOperatorPositions(parsed) = {1}
                  => redir.stdoutFile = parsed[2])
              /\ (StderrOperatorPositions(parsed) = {1}
                  => redir.stderrFile = parsed[2]))

\* C6 witness: a line that starts with a redirection and goes on with a
\* command was extracted.
C6_Witness ==
    /\ ExtractSucceeded
    /\ parsed[1] \in StdoutOps
    /\ Len(parsed) = 4
    /\ Len(fields) = 2
    /\ redir.stdoutFile = parsed[2]

\* C7: when extraction succeeds, the command tokens are exactly the tokens
\* that are neither an operator in operator position nor the token after
\* one, in their order.
C7_CommandTokensAreKeptSubsequence ==
    ExtractSucceeded => fields = KeptTokens(parsed)

\* C7 witness: a redirection in the middle of five tokens was removed and
\* three different-looking tokens kept.
C7_Witness ==
    /\ ExtractSucceeded
    /\ Len(parsed) = 5
    /\ IsOperatorPosition(parsed, 2)
    /\ Len(fields) = 3
    /\ fields[1] # fields[2]

\* C8: when extraction succeeds, the stdout target is the token after the last
\* stdout operator in operator position, and the stderr target the token
\* after the last stderr operator in operator position.
C8_LastTargetWins ==
    ExtractSucceeded
    => /\ (StdoutOperatorPositions(parsed) # {}
           => redir.stdoutFile = parsed[Last(StdoutOperatorPositions(parsed)) + 1])
       /\ (StderrOperatorPositions(parsed) # {}
           => redir.stderrFile = parsed[Last(StderrOperatorPositions(parsed)) + 1])

\* C8 witness: a command with two stdout redirections to different files.
C8_Witness ==
    /\ ExtractSucceeded
    /\ parsed[1] \notin RedirOps
    /\ \E i, j \in StdoutOperatorPositions(parsed) :
          i < j /\ parsed[i + 1] # parsed[j + 1]

\* C9 (as claimed): when extraction succeeds, stdoutAppend is true iff the
\* last stdout operator in operator position is >> or 1>>, and stderrAppend is
\* true iff the last stderr operator in operator position is 2>>.
C9_AppendFlagOfLastOperator ==
    ExtractSucceeded
    => /\ redir.stdoutAppend
            <=> /\ StdoutOperatorPositions(parsed) # {}
                /\ parsed[Last(StdoutOperatorPositions(parsed))] \in StdoutAppendOps
       /\ redir.stderrAppend
            <=> /\ StderrOperatorPositions(parsed) # {}
                /\ parsed[Last(StderrOperatorPositions(parsed))] \in StderrAppendOps

\* C10: for every line that is tokenized and then extracted with success, the
\* stdout target is non-empty iff a stdout operator stood in operator
\* position, and the stderr target is non-empty iff a stderr operator did.
C10_TargetPresentIffOperatorSeen ==
    ExtractSucceeded
    => /\ redir.stdoutFile # EmptyString <=> StdoutOperatorPositions(parsed) # {}
       /\ redir.stderrFile # EmptyString <=> StderrOperatorPositions(parsed) # {}

\* C10 witness: a line with an empty quoted word between the operator and its
\* filename was extracted, and the filename is the target.
C10_Witness ==
    /\ ExtractSucceeded
    /\ \E i \in 1..Len(input) : input[i] = "\""
    /\ StdoutOperatorPositions(parsed) # {}
    /\ redir.stdoutFile = <<"e">>
    /\ redir.stderrFile = EmptyString

(***************************************************************************)
(* The tokenizer claims.  A step of the loop is a step that advances       *)
(* scan.i; st is the state before it, c the byte it reads, nx the state    *)
(* after it.                                                               *)
(***************************************************************************)
LoopStep == pc = "t_loop" /\ scan'.i = scan.i + 1

QuotingChars == {"'", "\"", "\\"}

HasNoQuoting(s) == \A k \in 1..Len(s) : s[k] \notin QuotingChars

\* the length of the run of non-separators s starts with
RECURSIVE RunLen(_, _)
RunLen(s, seps) ==
    IF Len(s) = 0 \/ s[1] \in seps THEN 0 ELSE 1 + RunLen(Tail(s), seps)

\* the maximal runs of non-separators of s, in order
RECURSIVE SplitOn(_, _)
SplitOn(s, seps) ==
    IF Len(s) = 0 THEN << >>
    ELSE IF s[1] \in seps THEN SplitOn(Tail(s), seps)
    ELSE <<SubSeq(s, 1, RunLen(s, seps))>>
         \o SplitOn(SubSeq(s, RunLen(s, seps) + 1, Len(s)), seps)

WhitespaceSplit(s) == SplitOn(s, WhiteSpace)

\* C11 (as claimed): for a string with no quote and no backslash, the tokens
\* returned are the maximal runs of non-whitespace characters, in order, the
\* tab counting as whitespace like the space.
C11_TokenizeIsWhitespaceSplit ==
    (pc = "t_done" /\ HasNoQuoting(scan.command))
    => parsed = WhitespaceSplit(scan.command)

\* C12: inside double quotes an unescaped backslash adds nothing by itself
\* and marks the next character as escaped; the escaped character c adds c
\* alone when it is $, backquote, double quote, backslash or newline, and the
\* backslash followed by c otherwise; in both cases no token ends, the scan
\* stays inside the double quotes and no new escape starts.
C12_EscapeInsideDoubleQuotes ==
    [][ (LoopStep /\ scan.st.inDoubleQuote)
        => LET st == scan.st
               c  == scan.command[scan.i]
               nx == scan'.st
           IN  /\ (st.escaped
                   => /\ nx.current =
                            st.current
                            \o (IF c \in {"$", Backquote, "\"", "\\", "\n"}
                                THEN <<c>> ELSE <<"\\", c>>)
                      /\ nx.result = st.result
                      /\ nx.inDoubleQuote
                      /\ ~nx.inSingleQuote
                      /\ ~nx.escaped)
               /\ (~st.escaped /\ c = "\\"
                   => nx = [st EXCEPT !.escaped = TRUE]) ]_vars

\* C12 witness: in "\"" the escaped double quote has just been read: it is in
\* the token and the double quotes are still open.
C12_Witness ==
    /\ pc = "t_loop"
    /\ scan.i = 4
    /\ SubSeq(scan.command, 1, 3) = <<"\"", "\\", "\"">>
    /\ scan.st.current = <<"\"">>
    /\ scan.st.inDoubleQuote
    /\ ~scan.st.escaped

\* C13: outside any quote an unescaped backslash adds nothing by itself and
\* marks the next character as escaped; the escaped character c adds exactly c
\* to the current token and changes nothing else: no token ends, no quote
\* opens, no new escape starts.
C13_EscapeOutsideQuotes ==
    [][ (LoopStep /\ ~scan.st.inDoubleQuote /\ ~scan.st.inSingleQuote)
        => LET st == scan.st
               c  == scan.command[scan.i]
               nx == scan'.st
           IN  /\ (st.escaped
                   => nx = [st EXCEPT !.current = st.current \o <<c>>,
                                      !.escaped = FALSE])
               /\ (~st.escaped /\ c = "\\"
                   => nx = [st EXCEPT !.escaped = TRUE]) ]_vars

\* C13 witness: a\ a is the single token "a a".
C13_Witness ==
    /\ pc = "t_done"
    /\ scan.command = <<"a", "\\", " ", "a">>
    /\ parsed = << <<"a", " ", "a">> >>

\* C14: inside single quotes no escape is pending, a single quote closes the
\* quote and adds nothing, and every other character, the backslash, the
\* double quote and the space included, is added to the current token and
\* changes nothing else (the backslash does not mark the next character).
C14_SingleQuotesAreVerbatim ==
    [][ (LoopStep /\ scan.st.inSingleQuote)
        => LET st == scan.st
               c  == scan.command[scan.i]
               nx == scan'.st
           IN  /\ ~st.escaped
               /\ ~st.inDoubleQuote
               /\ IF c = "'"
                  THEN nx = [st EXCEPT !.inSingleQuote = FALSE]
                  ELSE nx = [st EXCEPT !.current = st.current \o <<c>>] ]_vars

\* C14 witness: in '\' the quote after the backslash has closed the single
\* quotes, and the token holds the backslash.
C14_Witness ==
    /\ pc = "t_loop"
    /\ scan.i = 4
    /\ SubSeq(scan.command, 1, 3) = <<"'", "\\", "'">>
    /\ scan.st.current = <<"\\">>
    /\ ~scan.st.inSingleQuote
    /\ ~scan.st.escaped

\* C15 (as claimed): an unescaped single quote toggles inSingleQuote exactly
\* when the scan is not inside double quotes and is never added to the token;
\* an unescaped double quote toggles inDoubleQuote exactly when the scan is not
\* inside single quotes and is never added to the token.
C15_QuoteNeverCopied ==
    [][ (LoopStep /\ ~scan.st.escaped /\ scan.command[scan.i] \in {"'", "\""})
        => LET st == scan.st
               c  == scan.command[scan.i]
               nx == scan'.st
           IN  /\ nx.current = st.current
               /\ (c = "'"
                   => nx.inSingleQuote =
                        (IF st.inDoubleQuote THEN st.inSingleQuote
                         ELSE ~st.inSingleQuote))
               /\ (c = "\""
                   => nx.inDoubleQuote =
                        (IF st.inSingleQuote THEN st.inDoubleQuote
                         ELSE ~st.inDoubleQuote)) ]_vars

\* C15 (amended): an unescaped single quote outside double quotes toggles
\* inSingleQuote and adds nothing; inside double quotes it toggles nothing and
\* is added to the token as an ordinary character.  Symmetrically for an
\* unescaped double quote with respect to single quotes.
C15_QuoteTogglesOrIsLiteral ==
    [][ (LoopStep /\ ~scan.st.escaped /\ scan.command[scan.i] \in {"'", "\""})
        => LET st == scan.st
               c  == scan.command[scan.i]
               nx == scan'.st
           IN  /\ (c = "'" /\ ~st.inDoubleQuote
                   => nx = [st EXCEPT !.inSingleQuote = ~st.inSingleQuote])
               /\ (c = "'" /\ st.inDoubleQuote
                   => nx = [st EXCEPT !.current = st.current \o <<c>>])
               /\ (c = "\"" /\ ~st.inSingleQuote
                   => nx = [st EXCEPT !.inDoubleQuote = ~st.inDoubleQuote])
               /\ (c = "\"" /\ st.inSingleQuote
                   => nx = [st EXCEPT !.current = st.current \o <<c>>]) ]_vars

\* C15 witness: "'" was tokenized: the single quote between the double quotes
\* is the token.
C15_Witness ==
    /\ pc = "t_done"
    /\ scan.command = <<"\"", "'", "\"">>
    /\ parsed = << <<"'">> >>

\* where the quote that is still open at the end was opened: an unescaped
\* quote character outside quotes with no closing quote after it
OpensUnterminated(command, q) ==
    LET pre == ParseScan(SubSeq(command, 1, q - 1), 1, ParseInit) IN
    /\ command[q] \in {"'", "\""}
    /\ ~pre.inSingleQuote /\ ~pre.inDoubleQuote /\ ~pre.escaped
    /\ LET fin == ParseScan(command, 1, ParseInit) IN
       /\ command[q] = "'" => fin.inSingleQuote
       /\ command[q] = "\"" => fin.inDoubleQuote
    /\ \A k \in (q + 1)..Len(command) :
          LET mid == ParseScan(SubSeq(command, 1, k), 1, ParseInit) IN
          mid.inSingleQuote \/ mid.inDoubleQuote

\* C16: the scan of every string ends and returns a token list.  While a
\* quote is open no token ends, and the quote stays open unless its closing
\* character is read.  At the end, with a quote still open, the tokens are
\* those complete before the opening quote plus at most one: the text in
\* progress there and everything after the quote, which for a single quote is
\* every remaining character as it stands; that last token is there iff it is
\* non-empty.
C16_TokenizeAlwaysReturns ==
    /\ <>(pc = "t_done")
    /\ [][ (LoopStep /\ (scan.st.inSingleQuote \/ scan.st.inDoubleQuote))
           => LET st == scan.st
                  c  == scan.command[scan.i]
                  nx == scan'.st
              IN  /\ nx.result = st.result
                  /\ (st.inSingleQuote /\ c # "'" => nx.inSingleQuote)
                  /\ (st.inDoubleQuote /\ (c # "\"" \/ st.escaped)
                      => nx.inDoubleQuote) ]_vars
    /\ [](pc = "t_done"
          => \A q \in 1..Len(scan.command) :
                OpensUnterminated(scan.command, q)
                => LET pre == ParseScan(SubSeq(scan.command, 1, q - 1), 1,
                                        ParseInit)
                       rest == SubSeq(scan.command, q + 1, Len(scan.command))
                   IN  /\ Len(parsed) <= Len(pre.result) + 1
                       /\ SubSeq(parsed, 1, Len(pre.result)) = pre.result
                       /\ (Len(parsed) = Len(pre.result) + 1
                           => Len(parsed[Len(parsed)]) > 0)
                       /\ (scan.command[q] = "'"
                           => parsed = pre.result
                                \o (IF Len(pre.current \o rest) > 0
                                    THEN <<pre.current \o rest>> ELSE << >>)))

\* C16 witness: the line a 'a  with its unterminated single quote was
\* tokenized into a and "a ", the blank at the end included.
C16_Witness ==
    /\ pc = "t_done"
    /\ scan.command = <<"a", " ", "'", "a", " ">>
    /\ scan.st.inSingleQuote
    /\ parsed = << <<"a">>, <<"a", " ">> >>

(***************************************************************************)
(* The completion claims.  The candidates are stated as sets, without the  *)
(* loops of autocomplete.                                                  *)
(***************************************************************************)
BuiltinNames == { builtinCMDs[k] : k \in 1..Len(builtinCMDs) }

\* the names of the files, directories left out, of the readable directories
FileNamesOnPath(installed) ==
    LET dirs == PathDirs(installed) IN
    UNION { { dirs[d].entries[k].name :
                k \in { k \in 1..Len(dirs[d].entries) : ~dirs[d].entries[k].isDir } } :
            d \in { d \in 1..Len(dirs) : dirs[d].ok } }

\* name starts with prefix and is longer
ExtendsPrefix(name, prefix) ==
    /\ Len(prefix) < Len(name)
    /\ \A k \in 1..Len(prefix) : name[k] = prefix[k]

MatchingCandidates(prefix, installed) ==
    IF \E n \in BuiltinNames : ExtendsPrefix(n, prefix)
    THEN { n \in BuiltinNames : ExtendsPrefix(n, prefix) }
    ELSE { n \in FileNamesOnPath(installed) : ExtendsPrefix(n, prefix) }

\* a comes before b in lexicographic order of the bytes
LexBefore(a, b) ==
    \/ ExtendsPrefix(b, a)
    \/ \E k \in 1..Len(a) :
          /\ k <= Len(b)
          /\ \A j \in 1..(k - 1) : a[j] = b[j]
          /\ ByteCode(a[k]) < ByteCode(b[k])

\* the names of S, each once, in lexicographic order
SortedListing(S) ==
    CHOOSE m \in [1..Cardinality(S) -> S] :
        \A i, j \in 1..Cardinality(S) : i < j => LexBefore(m[i], m[j])

\* the longest string every name of S starts with
CommonPrefix(S) ==
    LET n == CHOOSE x \in S : TRUE
        Common(k) == \A x \in S : Len(x) >= k /\ SubSeq(x, 1, k) = SubSeq(n, 1, k)
    IN  SubSeq(n, 1, CHOOSE k \in 0..Len(n) :
                        Common(k) /\ \A j \in (k + 1)..Len(n) : ~Common(j))

\* the key just handled was Tab, on a non-empty buffer without a space
TabOnCommandWord ==
    /\ editor.event = "tab"
    /\ Len(editor.before) > 0
    /\ ~ContainsSpace(editor.before)

\* C17: a Tab on a non-empty, space-free buffer that more than one candidate
\* matches leaves the buffer as it was; when it is the first Tab since the
\* last character or Backspace key it only rings the bell; when it is the
\* second, it prints the matching candidates, each once, in lexicographic
\* order, separated by two spaces, on a line of their own, and redraws the
\* prompt with the buffer.
C17_DoubleTabListsMatches ==
    (/\ TabOnCommandWord
     /\ Cardinality(MatchingCandidates(editor.before, editor.installed)) > 1)
    => /\ editor.input = editor.before
       /\ (editor.tabs = 1 => editor.out = <<Bell>>)
       /\ (editor.tabs = 2
           => editor.out =
                << NewLine,
                   [kind |-> "matches",
                    text |-> Join(SortedListing(
                                    MatchingCandidates(editor.before,
                                                       editor.installed)),
                                  TwoSpaces)],
                   NewLine,
                   printPromptWithInput(editor.before) >>)

\* C17 witness: the second Tab on l has listed three files, one of them found
\* last and listed first.
C17_Witness ==
    /\ editor.event = "tab"
    /\ editor.tabs = 2
    /\ editor.input = <<"l">>
    /\ editor.installed
    /\ Len(editor.out) = 4
    /\ editor.out[2].text = Join(<<S_lel, S_ll, S_lle>>, TwoSpaces)

\* C18: a Tab on a non-empty, space-free buffer b that exactly one candidate m
\* matches, whatever the number of Tab keys before it, makes the buffer m
\* followed by one space, which is b, the rest of m and a space, and clears
\* the Tab counter and the remembered prefix.
C18_UniqueMatchCompletes ==
    (/\ TabOnCommandWord
     /\ Cardinality(MatchingCandidates(editor.before, editor.installed)) = 1)
    => LET m == CHOOSE n \in MatchingCandidates(editor.before, editor.installed) :
                   TRUE
       IN  /\ editor.input = m \o <<" ">>
           /\ editor.input =
                editor.before \o SubSeq(m, Len(editor.before) + 1, Len(m))
                \o <<" ">>
           /\ editor.tabPressCount = 0
           /\ editor.lastTabPrefix = EmptyString

\* C18 witness: the second Tab in a row on le has completed it to the file
\* that appeared after the first.
C18_Witness ==
    /\ editor.event = "tab"
    /\ editor.tabs = 2
    /\ editor.before = <<"l", "e">>
    /\ editor.input = <<"l", "e", "l", " ">>

\* C19 (as claimed): the first Tab on a non-empty, space-free buffer that
\* several candidates match, all of them sharing a prefix longer than the
\* buffer, makes the buffer that longest common prefix.
C19_SingleTabExtendsToCommonPrefix ==
    (/\ TabOnCommandWord
     /\ editor.tabs = 1
     /\ Cardinality(MatchingCandidates(editor.before, editor.installed)) > 1
     /\ Len(CommonPrefix(MatchingCandidates(editor.before, editor.installed)))
          > Len(editor.before))
    => editor.input
         = CommonPrefix(MatchingCandidates(editor.before, editor.installed))

\* C20: the first Tab after a character or Backspace key never prints the
\* match list and counts as press number one, also when the buffer is again
\* what it was at the Tab before.
C20_EditResetsAttemptCounter ==
    (editor.event = "tab" /\ editor.tabs = 1)
    => /\ \A k \in 1..Len(editor.out) : editor.out[k].kind # "matches"
       /\ editor.tabPressCount <= 1
       /\ (editor.consulted
           /\ Cardinality(MatchingCandidates(editor.before, editor.installed)) > 1
           => editor.tabPressCount = 1 /\ editor.out = <<Bell>>)

\* C20 witness: Tab, then keys that changed the buffer and changed it back,
\* then Tab again on the same ambiguous buffer: the bell, no list.
C20_Witness ==
    /\ editor.event = "tab"
    /\ editor.tabs = 1
    /\ editor.retabbed
    /\ editor.keys >= 4
    /\ Cardinality(MatchingCandidates(editor.before, editor.installed)) > 1
    /\ editor.out = <<Bell>>

(***************************************************************************)
(* The line editor claims.                                                 *)
(***************************************************************************)
HasBlank(s) == \E k \in 1..Len(s) : s[k] = " "

\* C21: a Tab on a buffer that holds a space changes nothing in the buffer,
\* does not call autocomplete, writes nothing, the match list included, and
\* leaves the Tab counter 0 and the remembered prefix empty.
C21_TabAfterSpaceIsNoOp ==
    (editor.event = "tab" /\ HasBlank(editor.before))
    => /\ editor.input = editor.before
       /\ ~editor.consulted
       /\ editor.out = << >>
       /\ editor.tabPressCount = 0
       /\ editor.lastTabPrefix = EmptyString

\* C21 witness: Tab was pressed after a word and a space.
C21_Witness ==
    /\ editor.event = "tab"
    /\ Len(editor.before) >= 2
    /\ editor.before[1] = "e"
    /\ editor.before[Len(editor.before)] = " "
    /\ pc = "read"

\* C30: between key events tabPressCount is at least 0; when it is greater
\* than 0 the remembered prefix is the current buffer and the buffer holds no
\* space; when a line read starts, after any Enter, tabPressCount is 0 and
\* the remembered prefix is empty.
C30_TabStateInvariant ==
    /\ editor.tabPressCount >= 0
    /\ (pc = "read" /\ editor.tabPressCount > 0)
       => /\ editor.lastTabPrefix = editor.input
          /\ ~HasBlank(editor.input)
    /\ (editor.event \in {"start", "enter"})
       => /\ editor.tabPressCount = 0
          /\ editor.lastTabPrefix = EmptyString

\* C30 witness: a second line is being read and Tab was pressed twice on l.
C30_Witness ==
    /\ pc = "read"
    /\ cycles = 2
    /\ editor.tabPressCount = 2
    /\ editor.input = <<"l">>

\* C28: typing a printable character and then pressing Backspace leaves the
\* buffer as it was before the character, for every buffer and every
\* character, those encoded in more than one byte included.
C28_BackspaceUndoesTypedCharacter ==
    [][(editor.event = "rune" /\ editor'.event = "backspace")
       => editor'.input = editor.before]_vars

\* the input events the editor processes
KeyKinds == {"rune", "backspace", "tab", "enter", "ctrl_c"}

\* C25: a failed read of the next input event is fatal: once a read has
\* failed the shell reads no further input event, it terminates.
C25_ReadFailureIsFatal ==
    [][editor.event = "read_error" => editor'.event \notin KeyKinds]_vars

(***************************************************************************)
(* The claims about autocomplete.                                          *)
(***************************************************************************)
\* C22: completion yields no matches for the empty prefix and for every
\* prefix that contains a space, whatever names are on the search path: a Tab
\* on such a buffer obtains no suffix and no match list, leaves the buffer as
\* it was and prints no list, also when a file name on the search path
\* starts with the prefix.
C22_NoCompletionForEmptyOrSpacedPrefix ==
    (editor.event = "tab"
     /\ (editor.before = EmptyString \/ HasBlank(editor.before)))
    => /\ editor.completion = NoCompletion
       /\ editor.input = editor.before
       /\ editor.out \in { << >>, <<Bell>> }

\* C22 witness: Tab was pressed on x and a space while the file "x e" is on
\* the search path.
C22_Witness ==
    /\ pc = "read"
    /\ editor.event = "tab"
    /\ editor.before = <<"x", " ">>
    /\ { n \in FileNamesOnPath(editor.installed) :
           ExtendsPrefix(n, editor.before) } # {}
    /\ editor.completion = NoCompletion

\* the names a result of autocomplete stands for: the completed name when a
\* suffix is returned, the names of the list otherwise
ResultNames(prefix, completion) ==
    IF completion.result # EmptyString
    THEN { prefix \o completion.result }
    ELSE { completion.matches[k] : k \in 1..Len(completion.matches) }

\* C23: built-ins take precedence: when at least one built-in name starts
\* with the prefix and differs from it the result holds built-in names only
\* (all of those that match, for a non-empty prefix); when none does, the
\* result is the set of the matching non-directory file names of all the
\* search-path directories; each name appears once.
C23_BuiltinsTakePrecedence ==
    pc = "completed"
    => LET prefix == editor.input
           names == ResultNames(prefix, editor.completion)
           builtins == { n \in BuiltinNames : ExtendsPrefix(n, prefix) }
           files == { n \in FileNamesOnPath(editor.installed) :
                        ExtendsPrefix(n, prefix) }
       IN  /\ builtins # {}
              => /\ names \subseteq BuiltinNames
                 /\ prefix # EmptyString => names = builtins
           /\ builtins = {} => names = files
           /\ Len(editor.completion.matches) > 0
              => Len(editor.completion.matches) = Cardinality(names)

\* C23 witness: the prefix e matches the built-ins echo and exit, and the
\* file exa of the search path is not in the result.
C23_Witness ==
    /\ pc = "completed"
    /\ editor.input = <<"e">>
    /\ editor.completion = [result |-> EmptyString, matches |-> <<S_echo, S_exit>>]
    /\ S_exa \in FileNamesOnPath(editor.installed)

(***************************************************************************)
(* The shell at a terminal.                                                *)
(***************************************************************************)
\* C24: the terminal is in raw mode while the editor reads the keys of a
\* line, a failed read included, and in its original mode at every other
\* point: while a command, built-in or external, is executing, when the
\* process has terminated, through Ctrl-C too, and between the lines.
C24_TerminalModeDiscipline ==
    /\ pc = "read" => editor.raw
    /\ pc # "read" => ~editor.raw
    /\ editor.event = "read_error" => (pc = "read" /\ editor.raw)
    /\ (ghost.launched \/ ghost.handlerRan) => ~editor.raw

\* C24 witness: the second line was entered and its external command was
\* launched with the terminal in its original mode.
C24_Witness ==
    /\ cycles = 2
    /\ ghost.launched
    /\ editor.event = "enter"
    /\ ~editor.raw

(***************************************************************************)
(* The dispatch loop over several cycles.                                  *)
(***************************************************************************)
\* a dispatch cycle is under way
InCycle == pc \notin {"prompt", "exited", "panicked"}

\* how far a cycle has come: every step of a cycle moves it forward
CycleRank(p) ==
    CASE p = "parse"     -> 1
      [] p = "extract"   -> 2
      [] p = "dispatch"  -> 3
      [] p = "b_stdout"  -> 4
      [] p = "e_entry"   -> 4
      [] p = "b_stderr"  -> 5
      [] p = "e_stdout"  -> 5
      [] p = "b_handler" -> 6
      [] p = "e_stderr"  -> 6
      [] p = "e_run"     -> 7
      [] p = "b_return"  -> 8
      [] p = "e_return"  -> 8
      [] OTHER           -> 9

\* C26: every dispatch cycle ends: while it is under way a next step can be
\* taken and every step moves it forward, so that after a bounded number of
\* steps the shell is at its prompt again, unless the cycle ran the exit
\* built-in; no cycle ends the process in another way, whatever error it
\* met: the process is ended otherwise only at the prompt, while the next
\* line is read, by the key Ctrl+C or by a terminal that cannot be put in
\* raw mode; at the prompt, where the next line is read, the streams are
\* the original ones and no redirection file is open.
C26_ReadLoopAlwaysContinues ==
    /\ [](InCycle => ENABLED CycleStep)
    /\ [][InCycle => CycleRank(pc') > CycleRank(pc)]_vars
    /\ [][(InCycle /\ pc' = "exited")
          => (ghost'.handlerRan /\ fields[1] = S_exit)]_vars
    /\ [][pc' = "panicked" => pc = "prompt"]_vars
    /\ [](pc = "prompt" => (StreamsAreOriginal /\ NoHandleOpen))

\* C26 witness: a cycle whose program could not be started is over and the
\* shell is at the prompt with a line still to read.
C26_Witness ==
    /\ pc = "prompt"
    /\ cycles >= 1
    /\ cycles < MaxCycles
    /\ ghost.status = "launch_error"

\* the content of a file when the cycle started, a missing file being empty
ContentBefore(f) == IF f \in DOMAIN world.fs0 THEN world.fs0[f] ELSE << >>

\* what the cycle wrote into file f, in order
RECURSIVE WrittenFrom(_, _)
WrittenFrom(log, f) ==
    IF Len(log) = 0 THEN << >>
    ELSE IF Head(log).file = f
    THEN <<Head(log).msg>> \o WrittenFrom(Tail(log), f)
    ELSE WrittenFrom(Tail(log), f)

\* a cycle is over that extracted its redirections and opened its targets
CycleRedirected ==
    /\ pc = "prompt"
    /\ ghost.extracted
    /\ ~ghost.syntaxError
    /\ ~ghost.openFailed
    /\ FileOf(redir.stdoutFile) # FileOf(redir.stderrFile)

\* the operator that names the target of the stream is an append operator
StdoutOperatorAppends ==
    parsed[Last(StdoutOperatorPositions(parsed))] \in StdoutAppendOps

StderrOperatorAppends ==
    parsed[Last(StderrOperatorPositions(parsed))] \in StderrAppendOps

\* C27: a cycle that redirects a stream to a file with an append operator
\* leaves the file holding its earlier content followed by the cycle's
\* output, so that two such cycles accumulate; a cycle that redirects to the
\* file with a truncate operator leaves it holding that cycle's output only;
\* for built-ins and external commands alike.
C27_AppendAccumulatesTruncateDiscards ==
    CycleRedirected
    => /\ FileOf(redir.stdoutFile) \in world.opened
          => world.fs[FileOf(redir.stdoutFile)]
             = (IF StdoutOperatorAppends
                THEN ContentBefore(FileOf(redir.stdoutFile)) ELSE << >>)
               \o WrittenFrom(world.log, FileOf(redir.stdoutFile))
       /\ FileOf(redir.stderrFile) \in world.opened
          => world.fs[FileOf(redir.stderrFile)]
             = (IF StderrOperatorAppends
                THEN ContentBefore(FileOf(redir.stderrFile)) ELSE << >>)
               \o WrittenFrom(world.log, FileOf(redir.stderrFile))

\* C29: a cycle that ends in a file-open error changes nothing besides
\* writing the error message: every file, the stdout target when the stderr
\* target failed to open included, is as it was before the cycle, neither
\* created nor truncated.
C29_OpenErrorLeavesFilesUntouched ==
    (pc = "prompt" /\ ghost.openFailed) => world.fs = world.fs0

(***************************************************************************)
(* Quoting and redirection.                                                *)
(***************************************************************************)
\* the line with its quotes and backslashes left out
RECURSIVE Bare(_)
Bare(s) ==
    IF Len(s) = 0 THEN << >>
    ELSE IF s[1] \in QuotingChars THEN Bare(Tail(s))
    ELSE <<s[1]>> \o Bare(Tail(s))

\* a piece of text that quoting can wrap without changing the words of the
\* line: no blank and no quoting character in it
PlainText(s) == \A k \in 1..Len(s) : s[k] \notin QuotingChars \cup {" "}

\* every quote of the line is closed and wraps a non-empty piece of plain
\* text, and every backslash stands outside quotes before a plain character
RECURSIVE QuotingWrapsPlainText(_)
QuotingWrapsPlainText(s) ==
    IF Len(s) = 0 THEN TRUE
    ELSE IF s[1] = "\\"
    THEN /\ Len(s) >= 2
         /\ PlainText(<<s[2]>>)
         /\ QuotingWrapsPlainText(SubSeq(s, 3, Len(s)))
    ELSE IF s[1] \in {"'", "\""}
    THEN \E k \in 3..Len(s) :
            /\ s[k] = s[1]
            /\ PlainText(SubSeq(s, 2, k - 1))
            /\ QuotingWrapsPlainText(SubSeq(s, k + 1, Len(s)))
    ELSE QuotingWrapsPlainText(Tail(s))

\* C31: a line whose quotes and backslashes wrap plain text, an operator
\* string for example, gives the same extraction result (command tokens,
\* targets, append flags, syntax error) as the line written without them: a
\* quoted operator redirects like a bare one.
C31_QuotedOperatorStillRedirects ==
    (ghost.extracted /\ ~HasNoQuoting(input) /\ QuotingWrapsPlainText(input))
    => LET r == processRedirectionOperators(parseCommand(Bare(input))) IN
       /\ fields = r.fields
       /\ redir = [stdoutFile |-> r.stdoutFile, stderrFile |-> r.stderrFile,
                   stdoutAppend |-> r.stdoutAppend,
                   stderrAppend |-> r.stderrAppend]
       /\ ghost.syntaxError = r.syntaxError

\* C31 witness: the line e \> e was extracted: the command is e alone and
\* its stdout goes to the file e.
C31_Witness ==
    /\ ghost.extracted
    /\ input = <<"e", " ", "\\", ">", " ", "e">>
    /\ fields = << <<"e">> >>
    /\ redir.stdoutFile = <<"e">>
    /\ ~redir.stdoutAppend

====
